---- MODULE Spec2Model ----
(***************************************************************************)
(* A model of the zero-trust battleship framework:                         *)
(*   - SimpleMerkleTree / MerkleGridCommitment (crypto_battleship_clean.py)*)
(*   - Blockchain / Block / Transaction        (src/crypto/blockchain.py)  *)
(*   - ZeroTrustProtocol, the orchestrator     (src/crypto/protocol.py)    *)
(*   - BattleshipZeroTrust, the game layer     (src/game/battleship_...py) *)
(*   - BattleshipP2P / CryptoBattleshipP2P     (src/network/p2p.py,        *)
(*     the network layer and its handlers       src/network/integration.py)*)
(*                                                                         *)
(* sha256 is modelled as an injective constructor (a tagged tuple), ECDSA  *)
(* signatures as tagged (signer, message) tuples that verify only under    *)
(* the signer's public key and only over the signed message.               *)
(***************************************************************************)
EXTENDS Integers, Sequences, FiniteSets, TLC

VARIABLES
    \* ---- a Merkle commitment on its own (SpecMerkle)
    m_size,      \* grid_size of the commitment
    m_ships,     \* ship_positions, a set of <<x, y>>
    m_obj,       \* the MerkleGridCommitment object built from them
    m_pc,        \* "off" | "built" | "proved" | "verified" | "raised"
                 \* | "forged" | "checked" | "verify_raised"
    m_forged,    \* "none", or how the proof or the root at hand was forged
    m_proof,     \* the MerkleProof last generated (or NoProof)
    m_ok,        \* the last verify_proof result
    \* ---- the orchestrators of the two peers
    proto,       \* [Peers -> ZeroTrustProtocol state]
    game,        \* [Peers -> BattleshipZeroTrust state around the protocol]
    enf,         \* [Peers -> enforcement state: current_turn, pending deadlines]
    last,        \* the last call and what it returned
    now,         \* the clock read by time.time()
    wire,        \* honest run: what is in flight between the two peers;
                 \* SpecReconnect: the reconnection loop; SpecLink: the transport
    tamper,      \* NoTamper, or [block, field]: the one stored field overwritten
    thr,         \* [Threads -> where a thread of peer A is in its operation]
    \* ---- the network layer of the two peers
    p2p,         \* [Peers -> BattleshipP2P fields]
    net          \* [Peers -> the messages in flight to that peer, in order]

merkleVars == <<m_size, m_ships, m_obj, m_pc, m_forged, m_proof, m_ok>>
netVars    == <<p2p, net>>
protoVars  == <<proto, game, enf, last, now, wire, tamper, thr, p2p, net>>
vars       == <<m_size, m_ships, m_obj, m_pc, m_forged, m_proof, m_ok,
                proto, game, enf, last, now, wire, tamper, thr, p2p, net>>

-----------------------------------------------------------------------------
(* Bounds of the model *)

MaxGrid   == 3    \* grid sizes 1..MaxGrid in SpecMerkle
MaxShips  == 1    \* at most this many ship cells in SpecMerkle
GridN     == 2    \* grid size of the two peers' commitments
MaxChain  == 4    \* no call is made once a chain has this many blocks
MaxCheats == 1    \* no more cheats than this are recorded
MaxPending == 1   \* add_transaction is not called on a longer pending buffer
MaxHonestChain == 6   \* an honest run stops growing a chain of this many blocks
MaxSteps == 2   \* operations each thread of SpecThreads runs

-----------------------------------------------------------------------------
(* Primitives *)

None == <<"None">>

\* hashlib.sha256(...).digest(): collision-free, so an injective constructor
sha256(x) == <<"sha256", x>>

\* bytes.hex() and bytes.fromhex(): a digest and its hex string
hex(d) == <<"hex", d>>
fromhex(s) == s[2]

\* str(bool) as Python formats it in an f-string
BoolStr(b) == IF b THEN "True" ELSE "False"

-----------------------------------------------------------------------------
(* SimpleMerkleTree *)

\* a level whose odd last node is paired with the zero digest instead
RECURSIVE NextLevelZeroPad(_)
NextLevelZeroPad(level) ==
    IF level = <<>> THEN <<>>
    ELSE LET left  == level[1]
             right == IF Len(level) > 1 THEN level[2] ELSE <<"zero32">>
         IN  <<sha256(<<left, right>>)>>
             \o NextLevelZeroPad(SubSeq(level, 3, Len(level)))

\* one pass of the while loop of _build_tree / get_proof: the parents of a
\* level, taken two nodes at a time; an odd last node is paired with itself
RECURSIVE NextLevel(_)
NextLevel(level) ==
    IF level = <<>> THEN <<>>
    ELSE LET left  == level[1]
             right == IF Len(level) > 1 THEN level[2] ELSE left
         IN  <<sha256(<<left, right>>)>> \o NextLevel(SubSeq(level, 3, Len(level)))

RECURSIVE BuildTree(_)
BuildTree(level) ==
    IF Len(level) <= 1 THEN level ELSE BuildTree(NextLevel(level))

ZeroRoot == <<"zero32">>

\* SimpleMerkleTree.__init__: leaves, tree, root
TreeLeaves(data_list) == [i \in 1..Len(data_list) |-> sha256(data_list[i])]

TreeRoot(data_list) ==
    LET tree == BuildTree(TreeLeaves(data_list))
    IN  IF Len(tree) > 0 THEN tree[1] ELSE ZeroRoot

\* get_proof: index is 0-based as in the code
RECURSIVE ProofFrom(_, _)
ProofFrom(level, index) ==
    IF Len(level) <= 1 THEN <<>>
    ELSE LET even    == index % 2 = 0
             sibling == IF even THEN index + 1 ELSE index - 1
             is_left == ~even
             step    == IF sibling < Len(level)
                        THEN <<level[sibling + 1], is_left>>
                        ELSE <<level[index + 1], is_left>>
         IN  <<step>> \o ProofFrom(NextLevel(level), index \div 2)

get_proof(data_list, index) ==
    IF index >= Len(data_list) THEN <<>>
    ELSE ProofFrom(TreeLeaves(data_list), index)

\* SimpleMerkleTree.verify_proof: fold the path from the leaf
RECURSIVE FoldPath(_, _)
FoldPath(current_hash, proof) ==
    IF proof = <<>> THEN current_hash
    ELSE LET sibling_hash == proof[1][1]
             is_left      == proof[1][2]
         IN  FoldPath(IF is_left THEN sha256(<<sibling_hash, current_hash>>)
                                 ELSE sha256(<<current_hash, sibling_hash>>),
                      Tail(proof))

tree_verify_proof(leaf_data, proof, root) ==
    FoldPath(sha256(leaf_data), proof) = root

-----------------------------------------------------------------------------
(* MerkleGridCommitment *)

\* the cell of a 0-based index, x major as the nested loops of __init__
CellOf(index, grid_size) == <<index \div grid_size, index % grid_size>>

\* the decimal text of an integer, and int() of a text that is one
IntStr(n) == <<"int", n>>
int(s) == s[2]

\* CellData without the fact
CellDataFactless(seed, x, y, has_ship) == <<seed, IntStr(x), IntStr(y), BoolStr(FALSE)>>

\* f"{seed.hex()}:{x}:{y}:{has_ship}" as its four ':'-separated parts
CellData(seed, x, y, has_ship) == <<seed, IntStr(x), IntStr(y), BoolStr(has_ship)>>

GridData(ship_positions, seed, grid_size) ==
    [i \in 1..(grid_size * grid_size) |->
        LET c == CellOf(i - 1, grid_size)
        IN  CellData(seed, c[1], c[2], c \in ship_positions)]

\* a MerkleGridCommitment object
Commitment(ship_positions, seed, grid_size) ==
    [ship_positions |-> ship_positions, seed |-> seed, grid_size |-> grid_size,
     grid_data |-> GridData(ship_positions, seed, grid_size),
     root |-> hex(TreeRoot(GridData(ship_positions, seed, grid_size)))]

InGrid(c, x, y) == x >= 0 /\ x < c.grid_size /\ y >= 0 /\ y < c.grid_size

\* generate_proof for coordinates inside the grid (outside, the code raises)
grid_generate_proof(c, x, y) ==
    LET index    == x * c.grid_size + y
        has_ship == <<x, y>> \in c.ship_positions
        tuples   == get_proof(c.grid_data, index)
    IN  [position |-> <<x, y>>,
         has_ship |-> has_ship,
         result |-> IF has_ship THEN "hit" ELSE "miss",
         leaf_data |-> c.grid_data[index + 1],
         merkle_path |-> [i \in 1..Len(tuples) |->
                            [hash |-> hex(tuples[i][1]), is_left |-> tuples[i][2]]]]

\* MerkleGridCommitment.verify_proof has no try: int() of a text that is no
\* number, step['hash'] of an entry without that key and bytes.fromhex of a
\* text that is no hex raise, in the order the code reaches them
grid_verify_raises(proof, committed_root) ==
    LET parts == proof.leaf_data
    IN  IF Len(parts) # 4 THEN FALSE
        ELSE IF parts[2][1] # "int" \/ parts[3][1] # "int" THEN TRUE
        ELSE IF <<int(parts[2]), int(parts[3])>> # proof.position THEN FALSE
        ELSE IF (parts[4] = "True") # proof.has_ship THEN FALSE
        ELSE IF proof.result # (IF parts[4] = "True" THEN "hit" ELSE "miss") THEN FALSE
        ELSE \/ \E i \in 1..Len(proof.merkle_path) :
                    \/ "hash" \notin DOMAIN proof.merkle_path[i]
                    \/ proof.merkle_path[i].hash[1] # "hex"
             \/ committed_root[1] # "hex"

\* verify_proof that checks the leaf against the claim and not against the root
grid_verify_proof_unfolded(proof, committed_root) ==
    LET parts == proof.leaf_data
    IN  /\ Len(parts) = 4
        /\ <<int(parts[2]), int(parts[3])>> = proof.position
        /\ (parts[4] = "True") = proof.has_ship
        /\ proof.result = (IF proof.has_ship THEN "hit" ELSE "miss")

\* MerkleGridCommitment.verify_proof, where it returns
grid_verify_proof(proof, committed_root) ==
    LET parts == proof.leaf_data
    IN  IF Len(parts) # 4 THEN FALSE
        ELSE LET x == int(parts[2])
                 y == int(parts[3])
                 has_ship == (parts[4] = "True")
                 expected_result == IF has_ship THEN "hit" ELSE "miss"
             IN  IF <<x, y>> # proof.position THEN FALSE
                 ELSE IF has_ship # proof.has_ship THEN FALSE
                 ELSE IF proof.result # expected_result THEN FALSE
                 ELSE tree_verify_proof(
                          proof.leaf_data,
                          [i \in 1..Len(proof.merkle_path) |->
                              <<fromhex(proof.merkle_path[i].hash),
                                proof.merkle_path[i].is_left>>],
                          fromhex(committed_root))

NoProof == [position |-> <<0, 0>>, has_ship |-> FALSE, result |-> "none",
            leaf_data |-> <<>>, merkle_path |-> <<>>]

-----------------------------------------------------------------------------
(* CryptoIdentity *)

\* a key pair is named by its owner; the verifying key of signing key k
Pub(k) == <<"pub", k>>

\* _generate_player_id: sha256(public_key_bytes).hexdigest()[:16]
PlayerId(public_key) == <<"id", sha256(public_key)>>

\* json.dumps(data, sort_keys=True): the canonical string of a dict
json_dumps(data) == <<"json", data>>

\* sign_message: an ECDSA signature by k over message, as a hex string
sign_message(k, message) == <<"sig", Pub(k), message>>

\* strings that are no signature of anybody: "fake_signature", "0" * 128, ""
GarbageSignatures == {<<"garbage", "fake", "fake">>, <<"empty", "", "">>}

\* verify_signature: True iff the signature is one by public_key over message;
\* every exception (non-hex, wrong length, bad signature) becomes False
verify_signature(message, signature, public_key) ==
    IF signature[1] # "sig" THEN FALSE
    ELSE signature[2] = public_key /\ signature[3] = message

-----------------------------------------------------------------------------
(* Blockchain *)

\* MoveType
MT_COMMITMENT  == "commitment"
MT_ACTION      == "action"
MT_RESULT      == "result"
MT_TERMINATION == "termination"

Transaction(move_type, participant_id, data, timestamp, signature) ==
    [move_type |-> move_type, participant_id |-> participant_id, data |-> data,
     timestamp |-> timestamp, signature |-> signature]

\* "0" * 64
ZeroHash == <<"hex", <<"zeros">>>>

\* Block._calculate_block_hash over the block's current fields
calculate_block_hash(b) ==
    hex(sha256(<<b.prev_hash, b.transactions, b.block_number, b.timestamp>>))

\* Block.__init__
Block(prev_hash, transactions, block_number, timestamp) ==
    LET b == [prev_hash |-> prev_hash, transactions |-> transactions,
              block_number |-> block_number, timestamp |-> timestamp,
              hash |-> None]
    IN  [b EXCEPT !.hash = calculate_block_hash(b)]

\* Blockchain.__init__ with create_genesis_block
NewBlockchain(timestamp) ==
    [chain |-> <<Block(ZeroHash, <<>>, 0, timestamp)>>, pending |-> <<>>]

\* add_transaction that seals the buffer at once
add_transaction_sealing(bc, transaction) ==
    LET prev_hash == bc.chain[Len(bc.chain)].hash
        new_block == Block(prev_hash, Append(bc.pending, transaction),
                           Len(bc.chain), 0)
    IN  [chain |-> Append(bc.chain, new_block), pending |-> <<>>]

add_transaction(bc, transaction) ==
    [bc EXCEPT !.pending = Append(@, transaction)]

\* mine_block that links every new block to the genesis block
mine_block_unlinked(bc, timestamp) ==
    IF bc.pending = <<>> THEN bc
    ELSE LET prev_hash    == bc.chain[1].hash
             block_number == Len(bc.chain)
             new_block    == Block(prev_hash, bc.pending, block_number, timestamp)
         IN  [chain |-> Append(bc.chain, new_block), pending |-> <<>>]

\* mine_block that seals and leaves the buffer as it is
mine_block_unflushed(bc, timestamp) ==
    IF bc.pending = <<>> THEN bc
    ELSE LET prev_hash    == bc.chain[Len(bc.chain)].hash
             block_number == Len(bc.chain)
             new_block    == Block(prev_hash, bc.pending, block_number, timestamp)
         IN  [chain |-> Append(bc.chain, new_block), pending |-> bc.pending]

\* mine_block: nothing happens on an empty buffer
mine_block(bc, timestamp) ==
    IF bc.pending = <<>> THEN bc
    ELSE LET prev_hash    == bc.chain[Len(bc.chain)].hash
             block_number == Len(bc.chain)
             new_block    == Block(prev_hash, bc.pending, block_number, timestamp)
         IN  [chain |-> Append(bc.chain, new_block), pending |-> <<>>]

\* verify_chain: the loop starts at index 1, the second block
verify_chain(bc) ==
    \A i \in 2..Len(bc.chain) :
        /\ bc.chain[i].prev_hash = bc.chain[i - 1].hash
        /\ bc.chain[i].hash = calculate_block_hash(bc.chain[i])

\* all transactions of all blocks, in order
RECURSIVE Flatten(_)
Flatten(chain) ==
    IF chain = <<>> THEN <<>>
    ELSE chain[1].transactions \o Flatten(Tail(chain))

-----------------------------------------------------------------------------
(* ZeroTrustProtocol *)

Result(valid, reason) == [valid |-> valid, reason |-> reason]

\* a key of a dict that is absent
Missing == <<"missing">>

\* ZeroTrustProtocol.__init__
NewProtocol(k, timestamp) ==
    [key |-> k,
     my_participant_id |-> PlayerId(Pub(k)),
     blockchain |-> NewBlockchain(timestamp),
     opponent_participant_id |-> None,
     opponent_public_key |-> None,
     opponent_commitment |-> None,
     protocol_active |-> FALSE,
     my_actions_count |-> 0,
     opponent_actions_count |-> 0]

\* identity.public_key.to_string().hex()
PubHex(public_key) == <<"hex", public_key>>

\* VerifyingKey.from_string(bytes.fromhex(s), curve=SECP256k1) succeeds
Decodable(s) == Len(s) = 2 /\ s[1] = "hex" /\ s[2][1] = "pub"

get_my_commitment(p) ==
    [participant_id |-> p.my_participant_id,
     public_key |-> PubHex(Pub(p.key))]

\* a recording step that leaves its transaction in the buffer
RecordUnsealed(p, transaction, timestamp) ==
    [p EXCEPT !.blockchain = add_transaction(p.blockchain, transaction)]

\* add_transaction followed by mine_block, as every recording step does
Record(p, transaction, timestamp) ==
    [p EXCEPT !.blockchain =
        mine_block(add_transaction(p.blockchain, transaction), timestamp)]

\* set_opponent_commitment that sets protocol_active before it decodes the key
set_opponent_commitment_eager(p, commitment, timestamp) ==
    IF commitment.participant_id = Missing
    THEN [p |-> p, ret |-> Result(FALSE, "Invalid commitment")]
    ELSE LET p1 == [p EXCEPT !.opponent_participant_id = commitment.participant_id,
                             !.protocol_active = TRUE]
         IN  IF ~Decodable(commitment.public_key)
             THEN [p |-> p1, ret |-> Result(FALSE, "Invalid commitment")]
             ELSE LET p2 == [p1 EXCEPT
                               !.opponent_public_key = commitment.public_key[2],
                               !.opponent_commitment = commitment.commitment_root]
                      tx == Transaction(MT_COMMITMENT, p2.opponent_participant_id,
                                        commitment, timestamp, <<"empty", "", "">>)
                  IN  [p |-> Record(p2, tx, timestamp),
                       ret |-> Result(TRUE, "Opponent commitment recorded")]

\* set_opponent_commitment: the assignments before the failing lookup or
\* decoding stay, the except branch only builds the result ("Invalid
\* commitment: " followed by the exception's text)
set_opponent_commitment(p, commitment, timestamp) ==
    IF commitment.participant_id = Missing
    THEN [p |-> p, ret |-> Result(FALSE, "Invalid commitment")]
    ELSE LET p1 == [p EXCEPT !.opponent_participant_id = commitment.participant_id]
         IN  IF ~Decodable(commitment.public_key)
             THEN [p |-> p1, ret |-> Result(FALSE, "Invalid commitment")]
             ELSE LET p2 == [p1 EXCEPT
                               !.opponent_public_key = commitment.public_key[2],
                               !.opponent_commitment =
                                   IF commitment.commitment_root = Missing
                                   THEN None ELSE commitment.commitment_root]
                      tx == Transaction(MT_COMMITMENT, p2.opponent_participant_id,
                                        commitment, timestamp, <<"empty", "", "">>)
                      p3 == Record(p2, tx, timestamp)
                  IN  [p |-> [p3 EXCEPT !.protocol_active = TRUE],
                       ret |-> Result(TRUE, "Opponent commitment recorded")]

\* record_my_action that signs the caller's dict, not the completed one
record_my_action_unstamped(p, action_type, action_data, timestamp) ==
    LET complete_data == [x |-> action_data.x, y |-> action_data.y,
                          action_type |-> action_type, timestamp |-> timestamp]
        signature == sign_message(p.key, json_dumps(action_data))
        tx == Transaction(MT_ACTION, p.my_participant_id, complete_data,
                          timestamp, signature)
        p1 == Record(p, tx, timestamp)
    IN  [p |-> [p1 EXCEPT !.my_actions_count = @ + 1],
         data |-> complete_data, signature |-> signature]

\* record_my_action: returns the signed payload and its signature
record_my_action(p, action_type, action_data, timestamp) ==
    LET complete_data == [x |-> action_data.x, y |-> action_data.y,
                          action_type |-> action_type, timestamp |-> timestamp]
        message   == json_dumps(complete_data)
        signature == sign_message(p.key, message)
        tx == Transaction(MT_ACTION, p.my_participant_id, complete_data,
                          timestamp, signature)
        p1 == Record(p, tx, timestamp)
    IN  [p |-> [p1 EXCEPT !.my_actions_count = @ + 1],
         data |-> complete_data, signature |-> signature]

\* verify_opponent_action without its signature check
verify_opponent_action_unchecked(p, action_data, signature, timestamp) ==
    IF p.opponent_public_key = None
    THEN [p |-> p, ret |-> Result(FALSE, "Opponent commitment not set")]
    ELSE LET tx == Transaction(MT_ACTION, p.opponent_participant_id, action_data,
                               timestamp, signature)
             p1 == Record(p, tx, timestamp)
         IN  [p |-> [p1 EXCEPT !.opponent_actions_count = @ + 1],
              ret |-> Result(TRUE, "Opponent action verified and recorded")]

verify_opponent_action(p, action_data, signature, timestamp) ==
    IF p.opponent_public_key = None
    THEN [p |-> p, ret |-> Result(FALSE, "Opponent commitment not set")]
    ELSE IF ~verify_signature(json_dumps(action_data), signature,
                              p.opponent_public_key)
    THEN [p |-> p,
          ret |-> Result(FALSE, "Invalid signature - opponent may be cheating!")]
    ELSE LET tx == Transaction(MT_ACTION, p.opponent_participant_id, action_data,
                               timestamp, signature)
             p1 == Record(p, tx, timestamp)
         IN  [p |-> [p1 EXCEPT !.opponent_actions_count = @ + 1],
              ret |-> Result(TRUE, "Opponent action verified and recorded")]

\* the dict generate_proof signs and stores
ProofData(proof, query, timestamp) ==
    [proof_type |-> "merkle", query |-> query, position |-> proof.position,
     result |-> proof.result, has_value |-> proof.has_ship,
     leaf_data |-> proof.leaf_data, merkle_path |-> proof.merkle_path,
     timestamp |-> timestamp]

\* generate_proof for a query inside the commitment's grid
generate_proof(p, commitment_obj, query, timestamp) ==
    LET proof      == grid_generate_proof(commitment_obj, query[1], query[2])
        proof_data == ProofData(proof, query, timestamp)
        signature  == sign_message(p.key, json_dumps(proof_data))
        tx == Transaction(MT_RESULT, p.my_participant_id, proof_data,
                          timestamp, signature)
    IN  [p |-> Record(p, tx, timestamp), proof |-> proof, signature |-> signature]

\* verify_proof that records the verification whatever its outcome
verify_proof_logging(p, proof, proof_signature, committed_root, timestamp) ==
    IF p.opponent_public_key = None
    THEN [p |-> p, ret |-> Result(FALSE, "Opponent not set up")]
    ELSE LET ok == grid_verify_proof(proof, committed_root)
             verification_data ==
                 [action |-> "verified_proof", position |-> proof.position,
                  result |-> proof.result, has_value |-> proof.has_ship,
                  merkle_path |-> proof.merkle_path, leaf_data |-> proof.leaf_data,
                  committed_root |-> committed_root,
                  opponent_id |-> p.opponent_participant_id,
                  timestamp |-> timestamp]
             tx == Transaction(MT_RESULT, p.my_participant_id, verification_data,
                               timestamp,
                               sign_message(p.key, json_dumps(verification_data)))
         IN  [p |-> Record(p, tx, timestamp),
              ret |-> IF ok THEN Result(TRUE, "Proof verified and recorded")
                      ELSE Result(FALSE, "Invalid proof - opponent is cheating!")]

\* verify_proof: proof_signature is a parameter the body never verifies; the
\* proof_data dict it builds for the signature check is not used
verify_proof(p, proof, proof_signature, committed_root, timestamp) ==
    IF p.opponent_public_key = None
    THEN [p |-> p, ret |-> Result(FALSE, "Opponent not set up")]
    ELSE IF ~grid_verify_proof(proof, committed_root)
    THEN [p |-> p, ret |-> Result(FALSE, "Invalid proof - opponent is cheating!")]
    ELSE LET verification_data ==
                 [action |-> "verified_proof", position |-> proof.position,
                  result |-> proof.result, has_value |-> proof.has_ship,
                  merkle_path |-> proof.merkle_path, leaf_data |-> proof.leaf_data,
                  committed_root |-> committed_root,
                  opponent_id |-> p.opponent_participant_id,
                  timestamp |-> timestamp]
             signature == sign_message(p.key, json_dumps(verification_data))
             tx == Transaction(MT_RESULT, p.my_participant_id, verification_data,
                               timestamp, signature)
         IN  [p |-> Record(p, tx, timestamp),
              ret |-> Result(TRUE, "Proof verified and recorded")]

\* reveal_commitment: the revelation and its signature, which the code
\* returns as one dict
reveal_commitment(p, commitment_data, timestamp) ==
    LET revelation == [participant_id |-> p.my_participant_id,
                       commitment_data |-> commitment_data,
                       seed |-> hex(<<"seed", p.key>>), timestamp |-> timestamp]
    IN  [revelation |-> revelation,
         signature |-> sign_message(p.key, json_dumps(revelation))]

\* verify_opponent_revelation without the test of opponent_public_key
verify_opponent_revelation_unguarded(p, revelation, original_commitment_root) ==
    IF revelation.signature[1] = "empty"
    THEN Result(FALSE, "No signature in revelation")
    ELSE IF ~verify_signature(json_dumps(revelation.revelation), revelation.signature,
                              p.opponent_public_key)
    THEN Result(FALSE, "Invalid signature on revelation")
    ELSE Result(TRUE, "Revelation signature valid - application should verify commitment")

\* verify_opponent_revelation: changes nothing, original_commitment_root is
\* not read
verify_opponent_revelation(p, revelation, original_commitment_root) ==
    IF p.opponent_public_key = None
    THEN Result(FALSE, "Opponent public key not set")
    ELSE IF revelation.signature[1] = "empty"
    THEN Result(FALSE, "No signature in revelation")
    ELSE IF ~verify_signature(json_dumps(revelation.revelation), revelation.signature,
                              p.opponent_public_key)
    THEN Result(FALSE, "Invalid signature on revelation")
    ELSE Result(TRUE, "Revelation signature valid - application should verify commitment")

verify_blockchain_integrity(p) ==
    IF verify_chain(p.blockchain)
    THEN Result(TRUE, "Blockchain valid")
    ELSE Result(FALSE, "Blockchain corrupted!")

\* the check verify_all_signatures makes of one transaction: TRUE when the
\* transaction is put on the invalid list
SignatureRejected(p, tx) ==
    IF tx.move_type = MT_COMMITMENT THEN FALSE
    ELSE IF tx.participant_id = p.my_participant_id
    THEN ~verify_signature(json_dumps(tx.data), tx.signature, Pub(p.key))
    ELSE IF tx.participant_id = p.opponent_participant_id
    THEN IF p.opponent_public_key # None
         THEN ~verify_signature(json_dumps(tx.data), tx.signature,
                                p.opponent_public_key)
         ELSE FALSE
    ELSE FALSE

verify_all_signatures(p) ==
    LET txs == Flatten(p.blockchain.chain)
        invalid_txs == {i \in 1..Len(txs) : SignatureRejected(p, txs[i])}
    IN  IF invalid_txs # {}
        THEN Result(FALSE, "Found invalid signatures")
        ELSE Result(TRUE, "All signatures valid")

\* the proof check replay_from_blockchain makes of one transaction: TRUE when
\* the transaction is put on the invalid list
ProofRejected(tx) ==
    IF tx.move_type = MT_RESULT /\ "merkle_path" \in DOMAIN tx.data
    THEN IF "committed_root" \in DOMAIN tx.data
         THEN ~grid_verify_proof(
                  [position |-> tx.data.position, has_ship |-> tx.data.has_value,
                   result |-> tx.data.result, leaf_data |-> tx.data.leaf_data,
                   merkle_path |-> tx.data.merkle_path],
                  tx.data.committed_root)
         ELSE FALSE
    ELSE FALSE

replay_from_blockchain(p) ==
    LET chain_result == verify_blockchain_integrity(p)
        sig_result   == verify_all_signatures(p)
        txs          == Flatten(p.blockchain.chain)
        invalid_proofs == {i \in 1..Len(txs) : ProofRejected(txs[i])}
    IN  IF ~chain_result.valid THEN chain_result
        ELSE IF ~sig_result.valid THEN sig_result
        ELSE IF invalid_proofs # {}
        THEN Result(FALSE, "Found invalid proofs in history")
        ELSE Result(TRUE, "Complete protocol execution verified from blockchain")

-----------------------------------------------------------------------------
(* CheatDetector, CheatInvalidator *)

INVALID_PROOF == "invalid_proof"

\* CheatDetector.record_cheat: append a record
record_cheat(g, cheat_type, cheater_id) ==
    [g EXCEPT !.cheats =
        Append(@, [cheat_type |-> cheat_type, cheater_id |-> cheater_id])]

\* has_detected_cheating / get_cheating_proof: the first record is the proof
has_detected_cheating(g) == g.cheats # <<>>

\* CheatInvalidator.invalidate_participant / is_invalidated: a set of ids
invalidate_participant(g, participant_id) ==
    [g EXCEPT !.invalidated = @ \cup {participant_id}]

is_invalidated(g, participant_id) == participant_id \in g.invalidated

-----------------------------------------------------------------------------
(* BattleshipZeroTrust *)

\* the attributes of the game object around its protocol; has_root is
\* hasattr(self, 'opponent_commitment_root')
NewGame ==
    [has_root |-> FALSE, opponent_commitment_root |-> None,
     cheats |-> <<>>, invalidated |-> {},
     my_shot_results |-> {}, confirmed_hits_on_opponent |-> 0,
     my_shots |-> <<>>, opponent_shots |-> <<>>, hits_received |-> 0]

\* get_commitment_data: the protocol's commitment plus the grid root
get_commitment_data(p, commitment_obj) ==
    [participant_id |-> get_my_commitment(p).participant_id,
     public_key |-> get_my_commitment(p).public_key,
     commitment_root |-> commitment_obj.root]

\* BattleshipZeroTrust.set_opponent_commitment
game_set_opponent_commitment(g, p, commitment, timestamp) ==
    LET r == set_opponent_commitment(p, commitment, timestamp)
    IN  IF r.ret.valid
        THEN [g |-> [g EXCEPT !.has_root = TRUE,
                              !.opponent_commitment_root =
                                  IF commitment.commitment_root = Missing
                                  THEN None ELSE commitment.commitment_root],
              p |-> r.p, ret |-> TRUE, reason |-> r.ret.reason]
        ELSE [g |-> g, p |-> r.p, ret |-> FALSE, reason |-> r.ret.reason]

\* my_shot_results[position] = result, a dict as a set of <<key, value>>
DictSet(d, k, v) == {e \in d : e[1] # k} \cup {<<k, v>>}

\* BattleshipZeroTrust.verify_opponent_proof
verify_opponent_proof(g, p, proof, proof_signature, timestamp) ==
    IF ~g.has_root
    THEN [g |-> g, p |-> p, ret |-> FALSE, reason |-> "Opponent commitment not set"]
    ELSE LET v == verify_proof(p, proof, proof_signature,
                               g.opponent_commitment_root, timestamp)
         IN  IF ~v.ret.valid
             THEN [g |-> invalidate_participant(
                             record_cheat(g, INVALID_PROOF, p.opponent_participant_id),
                             p.opponent_participant_id),
                   p |-> v.p, ret |-> FALSE, reason |-> v.ret.reason]
             ELSE [g |-> [g EXCEPT
                            !.my_shot_results = DictSet(@, proof.position, proof.result),
                            !.confirmed_hits_on_opponent =
                                IF proof.has_ship THEN @ + 1 ELSE @],
                   p |-> v.p, ret |-> TRUE, reason |-> v.ret.reason]

-----------------------------------------------------------------------------
(* The two peers and what an adversary can send *)

Peers == {"A", "B"}
Other(p) == IF p = "A" THEN "B" ELSE "A"

SeedOf(k) == <<"seed", k>>
ShipsOf(k) == IF k = "A" THEN {<<0, 0>>} ELSE {<<GridN - 1, GridN - 1>>}
\* the commitment objects, built once
CommitObjs == [k \in {"A", "B", "M"} |-> Commitment(ShipsOf(k), SeedOf(k), GridN)]
CommitObj(k) == CommitObjs[k]

\* the cells that are shot at
QueryCells == {<<0, 0>>, <<GridN - 1, GridN - 1>>}
\* the cell the shots of a one-sided run are fired at
ShotCells == {<<0, 0>>}

\* a third participant, with its own key pair and commitment
Mallory == "M"
MalloryCommitment ==
    [participant_id |-> PlayerId(Pub(Mallory)), public_key |-> PubHex(Pub(Mallory)),
     commitment_root |-> CommitObj(Mallory).root]

\* the commitments peer p may receive: the other peer's, a third participant's,
\* one whose public key does not decode, one without participant_id
OppCommitmentsOf ==
    [p \in Peers |->
        LET honest == get_commitment_data(NewProtocol(Other(p), 0), CommitObj(Other(p)))
        IN  {honest, MalloryCommitment,
             [honest EXCEPT !.public_key = <<"hex", <<"short">>>>],
             [honest EXCEPT !.participant_id = Missing]}]
OppCommitments(p) == OppCommitmentsOf[p]

ShotPayload(cell, timestamp) ==
    [x |-> cell[1], y |-> cell[2], action_type |-> "fire_shot", timestamp |-> timestamp]

\* shots the other side signed when its clock read 0
OppPayloads == {ShotPayload(c, 0) : c \in ShotCells}

\* signatures that may come with a payload: by the other peer or by the third
\* participant over it, by the other peer over another payload, and garbage
OppSignatures(p, payload) ==
    {sign_message(Other(p), json_dumps(payload)),
     sign_message(Mallory, json_dumps(payload)),
     sign_message(Other(p), json_dumps([payload EXCEPT !.action_type = "pass"]))}
    \cup GarbageSignatures

\* the signed actions peer p may receive
OppActionsOf ==
    [p \in Peers |->
        UNION {{[data |-> pl, signature |-> sg] : sg \in OppSignatures(p, pl)} :
               pl \in OppPayloads}]
OppActions(p) == OppActionsOf[p]

\* a proof that keeps the path of a genuine one and lies about the fact
Lie(proof) ==
    [proof EXCEPT !.has_ship = ~@,
                  !.result = IF @ = "hit" THEN "miss" ELSE "hit",
                  !.leaf_data = CellData(SeedOf("fake"), proof.position[1],
                                           proof.position[2], ~proof.has_ship)]

GenuineProofs(k) == {grid_generate_proof(CommitObj(k), c[1], c[2]) : c \in QueryCells}

\* a proof as the other side signs it, or with a signature that is none
Signed(k, proof) ==
    [proof |-> proof,
     signature |-> sign_message(k, json_dumps(ProofData(proof, proof.position, 0)))]
Unsigned(proof) == [proof |-> proof, signature |-> <<"garbage", "fake", "fake">>]

\* the proofs peer p may receive: genuine ones, lies on a genuine path, and
\* one with a leaf that is not a cell, each signed or not
OppProofsOf ==
    [p \in Peers |->
        LET proofs == GenuineProofs(Other(p))
                      \cup {Lie(pr) : pr \in GenuineProofs(Other(p))}
                      \cup {[position |-> <<0, 0>>, has_ship |-> FALSE,
                             result |-> "miss", leaf_data |-> <<"fake_leaf_data">>,
                             merkle_path |-> <<>>]}
        IN  {Signed(Other(p), pr) : pr \in proofs} \cup {Unsigned(pr) : pr \in proofs}]
OppProofs(p) == OppProofsOf[p]

-----------------------------------------------------------------------------
(* Calls on a peer's objects *)

Called(op, p, valid, reason) ==
    [op |-> op, peer |-> p, valid |-> valid, reason |-> reason]

Room(p) == Len(proto[p].blockchain.chain) < MaxChain

\* time.time() after a call on p: later than every reading that call stored
Later(p) == IF proto'[p].blockchain = proto[p].blockchain THEN now ELSE now + 1

SetOpponentCommitment(p, commitment) ==
    /\ Room(p)
    /\ LET r == game_set_opponent_commitment(game[p], proto[p], commitment, now)
       IN  /\ proto' = [proto EXCEPT ![p] = r.p]
           /\ game' = [game EXCEPT ![p] = r.g]
           /\ last' = Called("set_opponent_commitment", p, r.ret, r.reason)
    /\ now' = Later(p)
    /\ UNCHANGED <<enf, wire, tamper, merkleVars, netVars, thr>>

RecordMyAction(p, cell) ==
    /\ Room(p)
    /\ LET r == record_my_action(proto[p], "fire_shot",
                                 [x |-> cell[1], y |-> cell[2]], now)
       IN  /\ proto' = [proto EXCEPT ![p] = r.p]
           /\ last' = Called("record_my_action", p, TRUE, "signed")
    /\ now' = Later(p)
    /\ UNCHANGED <<game, enf, wire, tamper, merkleVars, netVars, thr>>

VerifyOpponentAction(p, action_data, signature) ==
    /\ Room(p)
    /\ LET r == verify_opponent_action(proto[p], action_data, signature, now)
       IN  /\ proto' = [proto EXCEPT ![p] = r.p]
           /\ last' = Called("verify_opponent_action", p, r.ret.valid, r.ret.reason)
    /\ now' = Later(p)
    /\ UNCHANGED <<game, enf, wire, tamper, merkleVars, netVars, thr>>

GenerateProof(p, query) ==
    /\ Room(p)
    /\ LET r == generate_proof(proto[p], CommitObj(p), query, now)
       IN  /\ proto' = [proto EXCEPT ![p] = r.p]
           /\ last' = Called("generate_proof", p, TRUE, "signed")
    /\ now' = Later(p)
    /\ UNCHANGED <<game, enf, wire, tamper, merkleVars, netVars, thr>>

VerifyOpponentProof(p, proof, proof_signature) ==
    /\ Room(p)
    /\ LET r == verify_opponent_proof(game[p], proto[p], proof, proof_signature, now)
       IN  /\ Len(r.g.cheats) <= MaxCheats
           /\ proto' = [proto EXCEPT ![p] = r.p]
           /\ game' = [game EXCEPT ![p] = r.g]
           /\ last' = Called("verify_opponent_proof", p, r.ret, r.reason)
    /\ now' = Later(p)
    /\ UNCHANGED <<enf, wire, tamper, merkleVars, netVars, thr>>

VerifyBlockchainIntegrity(p) ==
    /\ LET r == verify_blockchain_integrity(proto[p])
       IN  last' = Called("verify_blockchain_integrity", p, r.valid, r.reason)
    /\ UNCHANGED <<proto, game, enf, now, wire, tamper, merkleVars, netVars, thr>>

VerifyAllSignatures(p) ==
    /\ LET r == verify_all_signatures(proto[p])
       IN  last' = Called("verify_all_signatures", p, r.valid, r.reason)
    /\ UNCHANGED <<proto, game, enf, now, wire, tamper, merkleVars, netVars, thr>>

ReplayFromBlockchain(p) ==
    /\ LET r == replay_from_blockchain(proto[p])
       IN  last' = Called("replay_from_blockchain", p, r.valid, r.reason)
    /\ UNCHANGED <<proto, game, enf, now, wire, tamper, merkleVars, netVars, thr>>

\* Blockchain.add_transaction called on the peer's ledger directly
AddTransaction(p, transaction) ==
    /\ Len(proto[p].blockchain.pending) < MaxPending
    /\ proto' = [proto EXCEPT ![p].blockchain = add_transaction(@, transaction)]
    /\ last' = Called("add_transaction", p, TRUE, "")
    /\ UNCHANGED <<game, enf, now, wire, tamper, merkleVars, netVars, thr>>

\* Blockchain.mine_block called on the peer's ledger directly; valid tells
\* whether the call returned new_block (TRUE) or None (FALSE)
MineBlock(p) ==
    /\ Room(p)
    /\ proto' = [proto EXCEPT ![p].blockchain = mine_block(@, now)]
    /\ last' = Called("mine_block", p, proto[p].blockchain.pending # <<>>, "")
    /\ now' = Later(p)
    /\ UNCHANGED <<game, enf, wire, tamper, merkleVars, netVars, thr>>

-----------------------------------------------------------------------------
(* Spec: peer A's objects driven by its application and by whatever the other
   side sends *)

NoTamper == [block |-> 0, field |-> "none"]

\* the application thread and the network receive thread of a peer
Threads == {"app", "net"}
\* a thread between two operations: nothing of mine_block's locals is bound
IdleThread == [pc |-> "idle", done |-> 0, txs |-> <<>>,
               prev_hash |-> None, block_number |-> 0, new_block |-> None]
NoWire == [phase |-> "idle"]

\* BattleshipP2P.__init__: _handshake_step does not exist yet
\* (has_handshake_step is hasattr(self, '_handshake_step'))
NewP2P(player_id) ==
    [player_id |-> player_id,
     connection_established |-> FALSE, connection_role |-> "None",
     phase |-> "disconnected", opponent_id |-> None, current_turn |-> None,
     ships_ready |-> FALSE, opponent_ships_ready |-> FALSE,
     has_handshake_step |-> FALSE, handshake_step |-> 0]

InitProto ==
    /\ proto = [p \in Peers |-> NewProtocol(p, 0)]
    /\ game = [p \in Peers |-> NewGame]
    /\ enf = [p \in Peers |-> [current_turn |-> PlayerId(Pub("A")),
                               pending |-> <<>>]]
    /\ last = Called("init", "A", TRUE, "")
    /\ now = 1
    /\ wire = NoWire
    /\ tamper = NoTamper
    /\ thr = [t \in Threads |-> IdleThread]
    /\ p2p = [p \in Peers |-> NewP2P(PlayerId(Pub(p)))]
    /\ net = [p \in Peers |-> <<>>]

InitMerkleOff ==
    /\ m_size = 0
    /\ m_ships = {}
    /\ m_obj = None
    /\ m_pc = "off"
    /\ m_forged = "none"
    /\ m_proof = NoProof
    /\ m_ok = FALSE

Init == InitProto /\ InitMerkleOff

AdvSetOpponentCommitment ==
    \E c \in OppCommitments("A") : SetOpponentCommitment("A", c)

AppRecordMyAction ==
    \E c \in ShotCells : RecordMyAction("A", c)

AdvVerifyOpponentAction ==
    \E a \in OppActions("A") : VerifyOpponentAction("A", a.data, a.signature)

AppGenerateProof ==
    \E c \in ShotCells : GenerateProof("A", c)

AdvVerifyOpponentProof ==
    \E sp \in OppProofs("A") : VerifyOpponentProof("A", sp.proof, sp.signature)

AppVerifyBlockchainIntegrity == VerifyBlockchainIntegrity("A")
AppVerifyAllSignatures == VerifyAllSignatures("A")
AppReplayFromBlockchain == ReplayFromBlockchain("A")

Next ==
    \/ AdvSetOpponentCommitment
    \/ AppRecordMyAction
    \/ AdvVerifyOpponentAction
    \/ AppGenerateProof
    \/ AdvVerifyOpponentProof
    \/ AppVerifyBlockchainIntegrity
    \/ AppVerifyAllSignatures
    \/ AppReplayFromBlockchain

Spec == Init /\ [][Next]_vars

-----------------------------------------------------------------------------
(* Properties of Spec *)

\* C3: with the opponent commitment set, verify_opponent_action with a
\* signature that is not the opponent's over the payload returns invalid with
\* a reason naming the signature and leaves the ledger and both counters as
\* they were; with the opponent's signature it returns valid, and every such
\* call, a re-submission included, appends one sealed block holding exactly
\* one Action transaction under the opponent's id and adds one to
\* opponent_actions_count.
C3_SignatureEnforcement ==
    [][\A a \in OppActions("A") :
        (/\ last'.op = "verify_opponent_action"
         /\ proto["A"].opponent_public_key # None
         /\ VerifyOpponentAction("A", a.data, a.signature))
        => LET p  == proto["A"]
               q  == proto'["A"]
               bc == p.blockchain
           IN  IF verify_signature(json_dumps(a.data), a.signature,
                                   p.opponent_public_key)
               THEN /\ last'.valid
                    /\ Len(q.blockchain.chain) = Len(bc.chain) + 1
                    /\ SubSeq(q.blockchain.chain, 1, Len(bc.chain)) = bc.chain
                    /\ q.blockchain.pending = <<>>
                    /\ LET b == q.blockchain.chain[Len(q.blockchain.chain)]
                       IN  /\ Len(b.transactions) = 1
                           /\ b.transactions[1].move_type = MT_ACTION
                           /\ b.transactions[1].participant_id = p.opponent_participant_id
                           /\ b.transactions[1].data = a.data
                           /\ b.transactions[1].signature = a.signature
                    /\ q.opponent_actions_count = p.opponent_actions_count + 1
                    /\ q.my_actions_count = p.my_actions_count
               ELSE /\ ~last'.valid
                    /\ last'.reason = "Invalid signature - opponent may be cheating!"
                    /\ q = p
      ]_vars

\* the same signed payload accepted twice: two Action transactions
C3_Witness ==
    LET txs == Flatten(proto["A"].blockchain.chain)
    IN  /\ last.op = "verify_opponent_action"
        /\ last.valid
        /\ proto["A"].opponent_actions_count = 2
        /\ \E i, j \in 1..Len(txs) :
              /\ i < j
              /\ txs[i].move_type = MT_ACTION
              /\ txs[j].move_type = MT_ACTION
              /\ txs[i].data = txs[j].data
              /\ txs[i].signature = txs[j].signature

\* C4: while current_turn is A's own id, an action from the opponent submitted
\* through verify_opponent_action is rejected even if its signature is valid;
\* a cheat is recorded and the sender is invalidated.
C4_TurnEnforcement ==
    (/\ last.op = "verify_opponent_action"
     /\ enf["A"].current_turn = proto["A"].my_participant_id)
    => /\ ~last.valid
       /\ proto["A"].opponent_actions_count = 0

\* an opponent's action accepted on A's turn, and nobody invalidated
C4_Witness ==
    /\ last.op = "verify_opponent_action"
    /\ last.valid
    /\ enf["A"].current_turn = proto["A"].my_participant_id
    /\ proto["A"].opponent_actions_count = 1
    /\ ~has_detected_cheating(game["A"])
    /\ ~is_invalidated(game["A"], proto["A"].opponent_participant_id)

\* C5: verify_proof verifies the signature: a proof whose signature is not one
\* by the stored opponent key over the proof's payload is answered invalid and
\* nothing is recorded, even when the Merkle proof verifies against the root.
C5_ProofSignatureVerified ==
    [][\A sp \in OppProofs("A") :
        (/\ last'.op = "verify_opponent_proof"
         /\ proto["A"].opponent_public_key # None
         /\ VerifyOpponentProof("A", sp.proof, sp.signature)
         /\ ~verify_signature(
                json_dumps(ProofData(sp.proof, sp.proof.position, 0)),
                sp.signature, proto["A"].opponent_public_key))
        => /\ ~last'.valid
           /\ proto'["A"].blockchain = proto["A"].blockchain
      ]_vars

\* C6: once a participant is invalidated, no later action or proof from that
\* id is answered valid.
C6_InvalidatedRefused ==
    (/\ last.op \in {"verify_opponent_action", "verify_opponent_proof"}
     /\ is_invalidated(game["A"], proto["A"].opponent_participant_id))
    => ~last.valid

\* a proof of an invalidated opponent accepted and put on the ledger
C6_Witness ==
    LET txs == Flatten(proto["A"].blockchain.chain)
    IN  /\ last.op = "verify_opponent_proof"
        /\ last.valid
        /\ has_detected_cheating(game["A"])
        /\ is_invalidated(game["A"], proto["A"].opponent_participant_id)
        /\ txs[Len(txs)].move_type = MT_RESULT
        /\ txs[Len(txs)].data.opponent_id \in game["A"].invalidated

\* C8: replay_from_blockchain answers valid only if every Result transaction
\* of the ledger has its embedded proof re-verified against its embedded root.
C8_ReplayVerifiesEveryResult ==
    (last.op = "replay_from_blockchain" /\ last.valid)
    => LET txs == Flatten(proto["A"].blockchain.chain)
       IN  \A i \in 1..Len(txs) :
              txs[i].move_type = MT_RESULT
              => /\ "committed_root" \in DOMAIN txs[i].data
                 /\ ~ProofRejected(txs[i])

\* a replay answered valid over a Result transaction that embeds no root
C8_Witness ==
    LET txs == Flatten(proto["A"].blockchain.chain)
    IN  /\ last.op = "replay_from_blockchain"
        /\ last.valid
        /\ \E i \in 1..Len(txs) :
              /\ txs[i].move_type = MT_RESULT
              /\ "merkle_path" \in DOMAIN txs[i].data
              /\ "committed_root" \notin DOMAIN txs[i].data

\* C9: verify_all_signatures answers valid only if every transaction that is
\* not a Commitment is attributed to A or to A's current opponent and carries
\* a signature by that party's key over its data.
C9_EverySignatureChecked ==
    (last.op = "verify_all_signatures" /\ last.valid)
    => LET p   == proto["A"]
           txs == Flatten(p.blockchain.chain)
       IN  \A i \in 1..Len(txs) :
              txs[i].move_type # MT_COMMITMENT
              => \/ /\ txs[i].participant_id = p.my_participant_id
                    /\ verify_signature(json_dumps(txs[i].data), txs[i].signature,
                                        Pub(p.key))
                 \/ /\ txs[i].participant_id = p.opponent_participant_id
                    /\ verify_signature(json_dumps(txs[i].data), txs[i].signature,
                                        p.opponent_public_key)

\* all signatures answered valid over an Action of a participant that is
\* neither A nor A's current opponent
C9_Witness ==
    LET p   == proto["A"]
        txs == Flatten(p.blockchain.chain)
    IN  /\ last.op = "verify_all_signatures"
        /\ last.valid
        /\ \E i \in 1..Len(txs) :
              /\ txs[i].move_type = MT_ACTION
              /\ txs[i].participant_id \notin
                     {p.my_participant_id, p.opponent_participant_id}

\* C14: a successful set_opponent_commitment stores the opponent's id, public
\* key and commitment root, appends exactly one unsigned Commitment transaction
\* attributed to the opponent, seals it in one new block and makes the
\* protocol active; with a public key that does not decode it returns an
\* invalid-commitment result, seals nothing and does not activate the protocol.
C14_CommitmentExchange ==
    [][\A c \in OppCommitments("A") :
        (/\ last'.op = "set_opponent_commitment"
         /\ SetOpponentCommitment("A", c))
        => LET p  == proto["A"]
               q  == proto'["A"]
               bc == p.blockchain
           IN  /\ last'.valid =>
                    /\ last'.reason = "Opponent commitment recorded"
                    /\ q.opponent_participant_id = c.participant_id
                    /\ PubHex(q.opponent_public_key) = c.public_key
                    /\ q.opponent_commitment = c.commitment_root
                    /\ game'["A"].opponent_commitment_root = c.commitment_root
                    /\ q.protocol_active
                    /\ Len(q.blockchain.chain) = Len(bc.chain) + 1
                    /\ SubSeq(q.blockchain.chain, 1, Len(bc.chain)) = bc.chain
                    /\ q.blockchain.pending = <<>>
                    /\ LET b == q.blockchain.chain[Len(q.blockchain.chain)]
                       IN  /\ b.prev_hash = bc.chain[Len(bc.chain)].hash
                           /\ Len(b.transactions) = 1
                           /\ b.transactions[1].move_type = MT_COMMITMENT
                           /\ b.transactions[1].participant_id = c.participant_id
                           /\ b.transactions[1].data = c
                           /\ b.transactions[1].signature = <<"empty", "", "">>
               /\ (c.participant_id # Missing /\ Decodable(c.public_key)) => last'.valid
               /\ ~Decodable(c.public_key) =>
                    /\ ~last'.valid
                    /\ last'.reason = "Invalid commitment"
                    /\ q.protocol_active = p.protocol_active
                    /\ q.blockchain = bc
                    /\ game'["A"] = game["A"]
      ]_vars

\* a commitment with an undecodable key refused before any was accepted: the
\* protocol is still inactive, the chain is the genesis block alone
C14_Witness ==
    /\ last.op = "set_opponent_commitment"
    /\ ~last.valid
    /\ last.reason = "Invalid commitment"
    /\ proto["A"].opponent_participant_id # None
    /\ proto["A"].opponent_public_key = None
    /\ ~proto["A"].protocol_active
    /\ Len(proto["A"].blockchain.chain) = 1

\* C19: one seal per logical step: when the orchestrator's operations run one
\* after another, after each of them the pending buffer is empty and every
\* block after the genesis block holds exactly one transaction, so the chain
\* length is 1 plus the number of recorded transactions.
C19_OneSealPerStep ==
    LET bc == proto["A"].blockchain
    IN  /\ bc.pending = <<>>
        /\ bc.chain[1].transactions = <<>>
        /\ \A i \in 2..Len(bc.chain) : Len(bc.chain[i].transactions) = 1
        /\ Len(bc.chain) = 1 + Len(Flatten(bc.chain))

\* a commitment, an own action and a verified proof, one block each
C19_Witness ==
    LET bc == proto["A"].blockchain
    IN  /\ Len(bc.chain) = 4
        /\ bc.chain[2].transactions[1].move_type = MT_COMMITMENT
        /\ bc.chain[3].transactions[1].move_type = MT_ACTION
        /\ bc.chain[4].transactions[1].move_type = MT_RESULT
        /\ last.op = "verify_opponent_proof"
        /\ last.valid

-----------------------------------------------------------------------------
(* SpecDirect: the operations of peer A's ZeroTrustProtocol object called
   directly, verify_proof with the root as an argument *)

\* the revelations peer A may receive: the opponent's, one signed by a third
\* participant, one without a signature
OppRevelations ==
    LET honest == reveal_commitment(NewProtocol("B", 0), ShipsOf("B"), 0)
    IN  {honest,
         [honest EXCEPT !.signature = sign_message(Mallory, json_dumps(honest.revelation))],
         [honest EXCEPT !.signature = <<"empty", "", "">>]}

\* ZeroTrustProtocol.verify_proof(proof, proof_signature, committed_root)
ProtoVerifyProof(p, proof, proof_signature, committed_root) ==
    /\ Room(p)
    /\ LET r == verify_proof(proto[p], proof, proof_signature, committed_root, now)
       IN  /\ proto' = [proto EXCEPT ![p] = r.p]
           /\ last' = Called("verify_proof", p, r.ret.valid, r.ret.reason)
    /\ now' = Later(p)
    /\ UNCHANGED <<game, enf, wire, tamper, merkleVars, netVars, thr>>

VerifyOpponentRevelation(p, revelation, original_commitment_root) ==
    /\ LET r == verify_opponent_revelation(proto[p], revelation, original_commitment_root)
       IN  last' = Called("verify_opponent_revelation", p, r.valid, r.reason)
    /\ UNCHANGED <<proto, game, enf, now, wire, tamper, merkleVars, netVars, thr>>

NextDirect ==
    \/ AdvSetOpponentCommitment
    \/ AppRecordMyAction
    \/ AdvVerifyOpponentAction
    \/ \E sp \in OppProofs("A") : \E k \in Peers :
            ProtoVerifyProof("A", sp.proof, sp.signature, CommitObj(k).root)
    \/ \E r \in OppRevelations : VerifyOpponentRevelation("A", r, CommitObj("B").root)

SpecDirect == Init /\ [][NextDirect]_vars

\* C15: before an opponent commitment has been stored, verify_opponent_action,
\* verify_proof and verify_opponent_revelation each return an invalid result
\* that says the opponent is not set, for every input, and change neither the
\* ledger nor the action counters.
C15_OpponentNotSet ==
    [][(/\ last'.op \in {"verify_opponent_action", "verify_proof",
                         "verify_opponent_revelation"}
        /\ proto["A"].opponent_public_key = None
        /\ NextDirect)
       => /\ ~last'.valid
          /\ last'.reason =
                (CASE last'.op = "verify_opponent_action" -> "Opponent commitment not set"
                   [] last'.op = "verify_proof" -> "Opponent not set up"
                   [] OTHER -> "Opponent public key not set")
          /\ proto' = proto
      ]_vars

\* a signed revelation refused after an own action was recorded and after a
\* commitment with an undecodable key left only the opponent's id behind
C15_Witness ==
    /\ last.op = "verify_opponent_revelation"
    /\ ~last.valid
    /\ last.reason = "Opponent public key not set"
    /\ proto["A"].opponent_public_key = None
    /\ proto["A"].opponent_participant_id # None
    /\ proto["A"].my_actions_count > 0

\* C16: verify_proof appends to the ledger only on success: a proof that
\* fails the check against the root it is held against returns invalid and
\* leaves chain and pending buffer as they were; a successful verification
\* appends and seals exactly one Result transaction, signed by the verifier,
\* that embeds position, fact, leaf data, sibling path and the root.
C16_ProofRecordedOnSuccess ==
    [][\A sp \in OppProofs("A") : \A k \in Peers :
        (/\ last'.op = "verify_proof"
         /\ proto["A"].opponent_public_key # None
         /\ ProtoVerifyProof("A", sp.proof, sp.signature, CommitObj(k).root))
        => LET p  == proto["A"]
               q  == proto'["A"]
               bc == p.blockchain
               root == CommitObj(k).root
           IN  IF grid_verify_proof(sp.proof, root)
               THEN /\ last'.valid
                    /\ Len(q.blockchain.chain) = Len(bc.chain) + 1
                    /\ SubSeq(q.blockchain.chain, 1, Len(bc.chain)) = bc.chain
                    /\ q.blockchain.pending = <<>>
                    /\ [q EXCEPT !.blockchain = bc] = p
                    /\ LET b  == q.blockchain.chain[Len(q.blockchain.chain)]
                           tx == b.transactions[1]
                       IN  /\ b.prev_hash = bc.chain[Len(bc.chain)].hash
                           /\ Len(b.transactions) = 1
                           /\ tx.move_type = MT_RESULT
                           /\ tx.participant_id = p.my_participant_id
                           /\ verify_signature(json_dumps(tx.data), tx.signature,
                                               Pub(p.key))
                           /\ tx.data.position = sp.proof.position
                           /\ tx.data.has_value = sp.proof.has_ship
                           /\ tx.data.result = sp.proof.result
                           /\ tx.data.leaf_data = sp.proof.leaf_data
                           /\ tx.data.merkle_path = sp.proof.merkle_path
                           /\ tx.data.committed_root = root
               ELSE /\ ~last'.valid
                    /\ last'.reason = "Invalid proof - opponent is cheating!"
                    /\ q = p
      ]_vars

\* a genuine proof of the opponent refused against the verifier's own root
\* after another was accepted against the opponent's: one Result block only
C16_Witness ==
    LET txs == Flatten(proto["A"].blockchain.chain)
    IN  /\ last.op = "verify_proof"
        /\ ~last.valid
        /\ last.reason = "Invalid proof - opponent is cheating!"
        /\ Cardinality({i \in 1..Len(txs) : txs[i].move_type = MT_RESULT}) = 1
        /\ \E i \in 1..Len(txs) :
              /\ txs[i].move_type = MT_RESULT
              /\ txs[i].data.committed_root = CommitObj("B").root
              /\ Len(txs[i].data.merkle_path) > 0

-----------------------------------------------------------------------------
(* SpecLedger: peer A's ledger under direct add_transaction / mine_block calls
   and under the orchestrator's recording operations *)

\* transactions an application may hand to add_transaction
RawTxs ==
    {Transaction(MT_TERMINATION, PlayerId(Pub("A")), [reason |-> "quit"], 0,
                 <<"empty", "", "">>)}

HonestCommitment(k) == get_commitment_data(NewProtocol(k, 0), CommitObj(k))

LedgerAddTransaction == \E tx \in RawTxs : AddTransaction("A", tx)
LedgerMineBlock == MineBlock("A")
LedgerSetOpponentCommitment == SetOpponentCommitment("A", HonestCommitment("B"))

NextLedger ==
    \/ LedgerAddTransaction
    \/ LedgerMineBlock
    \/ LedgerSetOpponentCommitment
    \/ AppRecordMyAction
    \/ AppGenerateProof
    \/ AppVerifyBlockchainIntegrity

SpecLedger == Init /\ [][NextLedger]_vars

\* C1: in every state reached by add_transaction and mine_block calls, direct
\* or through the orchestrator, every block after the first holds the hash of
\* the block before it, every block's stored hash is the hash of its fields,
\* block i carries block_number i, the first block is the genesis block (zero
\* prev_hash, no transactions), and verify_chain() is true.
C1_ChainInvariants ==
    LET bc == proto["A"].blockchain
    IN  /\ Len(bc.chain) >= 1
        /\ bc.chain[1].prev_hash = ZeroHash
        /\ bc.chain[1].transactions = <<>>
        /\ \A i \in 1..Len(bc.chain) :
              /\ bc.chain[i].block_number = i - 1
              /\ bc.chain[i].hash = calculate_block_hash(bc.chain[i])
              /\ i > 1 => bc.chain[i].prev_hash = bc.chain[i - 1].hash
        /\ verify_chain(bc)
        /\ last.op = "verify_blockchain_integrity" => last.valid

\* a chain of four blocks, one of them sealed from a buffer that a direct
\* add_transaction had filled, checked by verify_chain
C1_Witness ==
    LET bc == proto["A"].blockchain
    IN  /\ Len(bc.chain) = 4
        /\ \E i \in 2..3 : Len(bc.chain[i].transactions) = 2
        /\ bc.pending # <<>>
        /\ last.op = "verify_blockchain_integrity"
        /\ last.valid

\* C17: mine_block with an empty pending buffer returns None and leaves the
\* chain unchanged; with a non-empty buffer it appends exactly one new block
\* that contains all pending transactions in their insertion order, links it
\* to the previous last block's hash, empties the buffer and returns that
\* block. The orchestrator's operations call it after one add_transaction:
\* the block they seal starts with the transactions that were pending.
C17_MineBlock ==
    [][LET bc == proto["A"].blockchain
           qc == proto'["A"].blockchain
           b  == qc.chain[Len(qc.chain)]
       IN  /\ (last'.op = "mine_block" /\ MineBlock("A")) =>
                IF bc.pending = <<>>
                THEN ~last'.valid /\ qc = bc
                ELSE /\ last'.valid
                     /\ Len(qc.chain) = Len(bc.chain) + 1
                     /\ b.transactions = bc.pending
           /\ (qc.chain # bc.chain /\ NextLedger) =>
                /\ Len(qc.chain) = Len(bc.chain) + 1
                /\ SubSeq(qc.chain, 1, Len(bc.chain)) = bc.chain
                /\ b.prev_hash = bc.chain[Len(bc.chain)].hash
                /\ b.block_number = Len(bc.chain)
                /\ Len(b.transactions) \in {Len(bc.pending), Len(bc.pending) + 1}
                /\ SubSeq(b.transactions, 1, Len(bc.pending)) = bc.pending
                /\ qc.pending = <<>>
      ]_vars

\* mine_block on the emptied buffer returning None, after a block of two
\* transactions was sealed: the one pending first, then the orchestrator's
C17_Witness ==
    LET bc == proto["A"].blockchain
    IN  /\ last.op = "mine_block"
        /\ ~last.valid
        /\ bc.pending = <<>>
        /\ \E i \in 2..Len(bc.chain) :
              /\ Len(bc.chain[i].transactions) = 2
              /\ bc.chain[i].transactions[1].move_type = MT_TERMINATION
              /\ bc.chain[i].transactions[2].move_type = MT_ACTION
        /\ \E i \in 2..Len(bc.chain) :
              bc.chain[i].transactions = <<bc.chain[i].transactions[1]>>

-----------------------------------------------------------------------------
(* SpecTamper: a ledger built by the orchestrator, then one field of one
   stored block overwritten, the stored hash left as it was *)

BlockFields == {"prev_hash", "transactions", "block_number", "timestamp", "hash"}

ForgedHash == <<"hex", <<"forged">>>>
ForgedTx ==
    Transaction(MT_ACTION, PlayerId(Pub(Mallory)), ShotPayload(<<0, 0>>, 0), 0,
                <<"garbage", "fake", "fake">>)

\* block.<field> = <another value>
Overwrite(b, field) ==
    CASE field = "prev_hash"    -> [b EXCEPT !.prev_hash = ForgedHash]
      [] field = "transactions" -> [b EXCEPT !.transactions = Append(@, ForgedTx)]
      [] field = "block_number" -> [b EXCEPT !.block_number = @ + 1]
      [] field = "timestamp"    -> [b EXCEPT !.timestamp = @ + 1]
      [] field = "hash"         -> [b EXCEPT !.hash = ForgedHash]

TamperBlock(p, i, field) ==
    /\ tamper = NoTamper
    /\ i \in 1..Len(proto[p].blockchain.chain)
    /\ proto' = [proto EXCEPT ![p].blockchain.chain[i] = Overwrite(@, field)]
    /\ tamper' = [block |-> i, field |-> field]
    /\ last' = Called("tamper", p, TRUE, "")
    /\ UNCHANGED <<game, enf, now, wire, merkleVars, netVars, thr>>

Tamper == \E i \in 1..MaxChain : \E f \in BlockFields : TamperBlock("A", i, f)

NextTamper ==
    \/ tamper = NoTamper /\ LedgerSetOpponentCommitment
    \/ tamper = NoTamper /\ AppRecordMyAction
    \/ tamper = NoTamper /\ AppGenerateProof
    \/ Tamper
    \/ AppVerifyBlockchainIntegrity

SpecTamper == Init /\ [][NextTamper]_vars

\* C2: once any one field of any stored block, the genesis block and the last
\* block included, is overwritten without re-deriving the block's hash,
\* verify_chain() is false.
C2_TamperEvident ==
    tamper # NoTamper
    => /\ ~verify_chain(proto["A"].blockchain)
       /\ last.op = "verify_blockchain_integrity" => ~last.valid

\* transactions added to the genesis block of a three-block chain, and the
\* chain still answered valid
C2_Witness ==
    /\ tamper = [block |-> 1, field |-> "transactions"]
    /\ Len(proto["A"].blockchain.chain) = 3
    /\ proto["A"].blockchain.chain[1].transactions = <<ForgedTx>>
    /\ last.op = "verify_blockchain_integrity"
    /\ last.valid

-----------------------------------------------------------------------------
(* SpecHonest: two honest peers; each message is what the sender's call
   returned, handed to the receiver's call unchanged *)

Committed(p) == proto[p].opponent_public_key # None
HonestRoom(p) == Len(proto[p].blockchain.chain) < MaxHonestChain

\* each peer hands its commitment to the other
HonestExchange(p) ==
    /\ wire = NoWire
    /\ ~Committed(p)
    /\ SetOpponentCommitment(p, HonestCommitment(Other(p)))

\* the shooter: record_my_action, the signed payload goes out
HonestFire(s, cell) ==
    /\ wire = NoWire
    /\ Committed("A") /\ Committed("B")
    /\ HonestRoom(s)
    /\ LET r == record_my_action(proto[s], "fire_shot",
                                 [x |-> cell[1], y |-> cell[2]], now)
       IN  /\ proto' = [proto EXCEPT ![s] = r.p]
           /\ wire' = [phase |-> "shot", shooter |-> s,
                       data |-> r.data, signature |-> r.signature]
           /\ last' = Called("record_my_action", s, TRUE, "signed")
    /\ now' = Later(s)
    /\ UNCHANGED <<game, enf, tamper, merkleVars, netVars, thr>>

\* the responder: verify_opponent_action on what came in
HonestReceive ==
    /\ wire.phase = "shot"
    /\ HonestRoom(Other(wire.shooter))
    /\ LET q == Other(wire.shooter)
           r == verify_opponent_action(proto[q], wire.data, wire.signature, now)
       IN  /\ proto' = [proto EXCEPT ![q] = r.p]
           /\ wire' = IF r.ret.valid
                      THEN [phase |-> "received", shooter |-> wire.shooter,
                            cell |-> <<wire.data.x, wire.data.y>>]
                      ELSE NoWire
           /\ last' = Called("verify_opponent_action", q, r.ret.valid, r.ret.reason)
    /\ now' = Later(Other(wire.shooter))
    /\ UNCHANGED <<game, enf, tamper, merkleVars, netVars, thr>>

\* the responder: generate_proof for the cell shot at, the signed proof goes out
HonestProve ==
    /\ wire.phase = "received"
    /\ HonestRoom(Other(wire.shooter))
    /\ LET q == Other(wire.shooter)
           r == generate_proof(proto[q], CommitObj(q), wire.cell, now)
       IN  /\ proto' = [proto EXCEPT ![q] = r.p]
           /\ wire' = [phase |-> "proof", shooter |-> wire.shooter,
                       proof |-> r.proof, signature |-> r.signature]
           /\ last' = Called("generate_proof", q, TRUE, "signed")
    /\ now' = Later(Other(wire.shooter))
    /\ UNCHANGED <<game, enf, tamper, merkleVars, netVars, thr>>

\* the shooter: the proof is verified against the root the responder committed to
HonestVerify ==
    /\ wire.phase = "proof"
    /\ HonestRoom(wire.shooter)
    /\ LET s == wire.shooter
           r == verify_opponent_proof(game[s], proto[s], wire.proof,
                                      wire.signature, now)
       IN  /\ proto' = [proto EXCEPT ![s] = r.p]
           /\ game' = [game EXCEPT ![s] = r.g]
           /\ last' = Called("verify_opponent_proof", s, r.ret, r.reason)
    /\ wire' = NoWire
    /\ now' = Later(wire.shooter)
    /\ UNCHANGED <<enf, tamper, merkleVars, netVars, thr>>

HonestCommit == \E p \in Peers : HonestExchange(p)
HonestShot == \E s \in Peers : \E c \in QueryCells : HonestFire(s, c)
HonestCheckChain == \E p \in Peers : VerifyBlockchainIntegrity(p) /\ UNCHANGED wire
HonestCheckSignatures == \E p \in Peers : VerifyAllSignatures(p) /\ UNCHANGED wire
HonestReplay == \E p \in Peers : ReplayFromBlockchain(p) /\ UNCHANGED wire

NextHonest ==
    \/ HonestCommit
    \/ HonestShot
    \/ HonestReceive
    \/ HonestProve
    \/ HonestVerify
    \/ HonestCheckChain
    \/ HonestCheckSignatures
    \/ HonestReplay

SpecHonest == Init /\ [][NextHonest]_vars

\* C7: at every point of an honest run between two peers (commitments
\* exchanged, then rounds of record_my_action, verify_opponent_action,
\* generate_proof, verify_proof), verify_blockchain_integrity,
\* verify_all_signatures and replay_from_blockchain answer valid on each
\* peer's own ledger, and every verification of the run has passed.
C7_HonestRunVerifies ==
    /\ \A p \in Peers :
          /\ verify_blockchain_integrity(proto[p]).valid
          /\ verify_all_signatures(proto[p]).valid
          /\ replay_from_blockchain(proto[p]).valid
    /\ last.valid

\* two full rounds done, each peer the shooter of one, and B's ledger replayed
C7_Witness ==
    /\ wire = NoWire
    /\ proto["A"].my_actions_count = 1
    /\ proto["A"].opponent_actions_count = 1
    /\ proto["B"].my_actions_count = 1
    /\ proto["B"].opponent_actions_count = 1
    /\ Len(proto["A"].blockchain.chain) = 6
    /\ Len(proto["B"].blockchain.chain) = 6
    /\ game["B"].my_shot_results # {}
    /\ game["A"].my_shot_results # {}
    /\ last = Called("replay_from_blockchain", "B", TRUE,
                     "Complete protocol execution verified from blockchain")

-----------------------------------------------------------------------------
(* A commitment alone: any grid size, any ship set, any cell *)

MerkleSeed == SeedOf("A")
MerkleCells(n) == {<<x, y>> : x \in 0..(n - 1), y \in 0..(n - 1)}
MerkleObj == Commitment(m_ships, MerkleSeed, m_size)

InitMerkle ==
    /\ m_size \in 1..MaxGrid
    /\ m_ships \in {S \in SUBSET MerkleCells(m_size) : Cardinality(S) <= MaxShips}
    /\ m_obj = MerkleObj
    /\ m_pc = "built"
    /\ m_forged = "none"
    /\ m_proof = NoProof
    /\ m_ok = FALSE

\* MerkleGridCommitment.generate_proof(x, y): raises outside the grid
MGenerateProof(x, y) ==
    /\ m_pc = "built"
    /\ IF InGrid([grid_size |-> m_size], x, y)
       THEN /\ m_proof' = grid_generate_proof(m_obj, x, y)
            /\ m_pc' = "proved"
       ELSE /\ m_proof' = NoProof
            /\ m_pc' = "raised"
    /\ m_ok' = FALSE
    /\ m_forged' = "none"
    /\ UNCHANGED <<m_size, m_ships, m_obj, protoVars>>

\* MerkleGridCommitment.verify_proof(proof, root) on the proof just generated
MVerifyProof ==
    /\ m_pc = "proved"
    /\ m_ok' = grid_verify_proof(m_proof, m_obj.root)
    /\ m_pc' = "verified"
    /\ UNCHANGED <<m_size, m_ships, m_obj, m_forged, m_proof, protoVars>>

\* what a cheating prover can make of a genuine proof: the same proof held
\* against another root, a different fact on the genuine path, or fields
\* that are not of the form verify_proof reads
SoundKinds == {"other_root", "flipped_has_ship", "flipped_leaf", "altered_leaf"}
ForgeKinds == SoundKinds \cup {"short_leaf", "text_coordinate", "path_not_records",
                               "nonhex_hash", "nonhex_root"}

Forge(kind, proof) ==
    CASE kind = "flipped_has_ship" -> [proof EXCEPT !.has_ship = ~@]
      [] kind = "flipped_leaf" ->
            [proof EXCEPT !.has_ship = ~@,
                          !.result = IF @ = "hit" THEN "miss" ELSE "hit",
                          !.leaf_data = CellData(MerkleSeed, proof.position[1],
                                                 proof.position[2], ~proof.has_ship)]
      [] kind = "altered_leaf" -> [proof EXCEPT !.leaf_data[1] = SeedOf("fake")]
      [] kind = "short_leaf" -> [proof EXCEPT !.leaf_data = <<"fake_leaf_data">>]
      [] kind = "text_coordinate" -> [proof EXCEPT !.leaf_data[2] = <<"text", "x">>]
      [] kind = "path_not_records" ->
            [proof EXCEPT !.merkle_path = <<[text |-> "fake"], [text |-> "path"]>>]
      [] kind = "nonhex_hash" ->
            [proof EXCEPT !.merkle_path =
                <<[hash |-> <<"text", "zz">>, is_left |-> FALSE]>> \o @]
      [] OTHER -> proof

\* the root the verifier holds the forged proof against
ForgedRoot(kind) ==
    CASE kind = "other_root" -> Commitment(m_ships, SeedOf("B"), m_size).root
      [] kind = "nonhex_root" -> <<"text", "not-hex">>
      [] OTHER -> m_obj.root

MForge(kind) ==
    /\ m_pc = "proved"
    /\ m_proof' = Forge(kind, m_proof)
    /\ m_forged' = kind
    /\ m_pc' = "forged"
    /\ UNCHANGED <<m_size, m_ships, m_obj, m_ok, protoVars>>

\* MerkleGridCommitment.verify_proof(proof, root) on a forged proof or root
MVerifyForged ==
    /\ m_pc = "forged"
    /\ IF grid_verify_raises(m_proof, ForgedRoot(m_forged))
       THEN m_pc' = "verify_raised" /\ m_ok' = FALSE
       ELSE m_pc' = "checked" /\ m_ok' = grid_verify_proof(m_proof, ForgedRoot(m_forged))
    /\ UNCHANGED <<m_size, m_ships, m_obj, m_forged, m_proof, protoVars>>

MerkleGenerate == \E x \in (-1)..MaxGrid : \E y \in (-1)..MaxGrid : MGenerateProof(x, y)

NextMerkle ==
    \/ MerkleGenerate
    \/ MVerifyProof
    \/ \E kind \in ForgeKinds : MForge(kind)
    \/ MVerifyForged

InitCommitment == InitProto /\ InitMerkle

SpecMerkle == InitCommitment /\ [][NextMerkle]_vars

\* C10: proof completeness: for every grid size and ship set, the proof
\* generated for any cell of the grid, cells whose path passes a level with an
\* odd number of nodes included, verifies against the commitment's root.
C10_ProofCompleteness ==
    m_pc = "verified" =>
        /\ m_ok
        /\ m_proof.position \in MerkleCells(m_size)
        /\ m_proof.has_ship = (m_proof.position \in m_ships)

\* the last cell of a 3 x 3 grid: nine leaves, the ninth is paired with itself
C10_Witness ==
    /\ m_pc = "verified"
    /\ m_size = 3
    /\ m_proof.position = <<2, 2>>
    /\ Len(m_proof.merkle_path) = 4
    /\ m_proof.merkle_path[1].hash = hex(sha256(m_proof.leaf_data))
    /\ m_ok

\* C11: proof soundness: verify_proof returns false for a genuine proof held
\* against a different root, and for a proof that keeps the genuine path and
\* states a different fact (has_ship flipped, or the leaf data altered).
C11_ProofSoundness ==
    (m_pc = "checked" /\ m_forged \in SoundKinds) => ~m_ok

\* the last cell of a 3 x 3 grid with its fact flipped in claim and leaf
C11_Witness ==
    /\ m_pc = "checked"
    /\ m_forged = "flipped_leaf"
    /\ m_size = 3
    /\ m_proof.position = <<2, 2>>
    /\ m_proof.has_ship # (m_proof.position \in m_ships)
    /\ Len(m_proof.merkle_path) = 4
    /\ ~m_ok

\* C12: verify_proof returns a boolean and never raises, whatever the proof
\* and the root are; a malformed proof verifies to false.
C12_NeverRaises ==
    m_pc # "verify_raised"

\* a leaf of one field is refused with False, as test_invalid_proof_detection expects
C12_Witness ==
    /\ m_pc = "checked"
    /\ m_forged = "short_leaf"
    /\ ~m_ok

\* C13: commitment binding: with the seed and the grid size fixed, the
\* commitment that differs in the fact of exactly one cell has a different root.
C13_CommitmentBinding ==
    m_pc = "built" =>
        \A c \in MerkleCells(m_size) :
            LET flipped == IF c \in m_ships THEN m_ships \ {c} ELSE m_ships \cup {c}
            IN  Commitment(flipped, MerkleSeed, m_size).root # m_obj.root

\* a 3 x 3 grid with a ship: nine cells, each flipped in turn
C13_Witness ==
    /\ m_pc = "built"
    /\ m_size = 3
    /\ m_ships = {<<2, 2>>}
    /\ Len(m_obj.grid_data) = 9

-----------------------------------------------------------------------------
(* SpecThreads: the application thread (fire_shot -> record_my_action) and the
   network receive thread (_handle_peer_communication -> the message handler
   -> set_opponent_commitment / verify_opponent_action) of peer A on the one
   ledger; no lock is taken around the orchestrator, so the statements of
   add_transaction and mine_block of the two threads interleave *)

\* the statements of an operation up to and with blockchain.add_transaction:
\* the application thread signs a shot, the network thread takes the
\* opponent's commitment first and the opponent's signed shots after it
ThreadAdd(t) ==
    /\ thr[t].pc = "idle"
    /\ thr[t].done < MaxSteps
    /\ LET p  == proto["A"]
           c  == HonestCommitment("B")
           shot == ShotPayload(<<0, 0>>, now)
           tx == IF t = "app"
                 THEN Transaction(MT_ACTION, p.my_participant_id, shot, now,
                                  sign_message(p.key, json_dumps(shot)))
                 ELSE IF p.opponent_public_key = None
                 THEN Transaction(MT_COMMITMENT, c.participant_id, c, now,
                                  <<"empty", "", "">>)
                 ELSE Transaction(MT_ACTION, p.opponent_participant_id, shot, now,
                                  sign_message("B", json_dumps(shot)))
           p1 == IF t = "net" /\ p.opponent_public_key = None
                 THEN [p EXCEPT !.opponent_participant_id = c.participant_id,
                                !.opponent_public_key = c.public_key[2],
                                !.opponent_commitment = c.commitment_root]
                 ELSE p
       IN  /\ proto' = [proto EXCEPT !["A"] =
                           [p1 EXCEPT !.blockchain = add_transaction(@, tx)]]
           /\ thr' = [thr EXCEPT ![t].pc = "mine", ![t].txs = Append(@, tx)]
    \* the clock is read for the transaction: the next one is stamped later
    /\ now' = now + 1
    /\ UNCHANGED <<game, enf, last, wire, tamper, merkleVars, netVars>>

\* the next statement of the operation: those of mine_block one by one, then
\* the statement after the call (the counter or protocol_active) and the return
ThreadStep(t) ==
    LET bc == proto["A"].blockchain
        me == thr[t]
    IN  /\ me.pc \notin {"idle"}
        /\ CASE me.pc = "mine" ->
                   /\ thr' = [thr EXCEPT ![t].pc = IF bc.pending = <<>> THEN "after"
                                                   ELSE "prev_hash"]
                   /\ UNCHANGED <<proto, last>>
             [] me.pc = "prev_hash" ->
                   /\ thr' = [thr EXCEPT ![t].pc = "block_number",
                                         ![t].prev_hash = bc.chain[Len(bc.chain)].hash]
                   /\ UNCHANGED <<proto, last>>
             [] me.pc = "block_number" ->
                   /\ thr' = [thr EXCEPT ![t].pc = "new_block",
                                         ![t].block_number = Len(bc.chain)]
                   /\ UNCHANGED <<proto, last>>
             [] me.pc = "new_block" ->
                   /\ thr' = [thr EXCEPT ![t].pc = "append",
                                         ![t].new_block = Block(me.prev_hash, bc.pending,
                                                                me.block_number, now)]
                   /\ UNCHANGED <<proto, last>>
             [] me.pc = "append" ->
                   /\ proto' = [proto EXCEPT !["A"].blockchain.chain =
                                                Append(@, me.new_block)]
                   /\ thr' = [thr EXCEPT ![t].pc = "clear"]
                   /\ UNCHANGED last
             [] me.pc = "clear" ->
                   /\ proto' = [proto EXCEPT !["A"].blockchain.pending = <<>>]
                   /\ thr' = [thr EXCEPT ![t].pc = "after"]
                   /\ UNCHANGED last
             [] OTHER ->
                   LET kind == me.txs[Len(me.txs)].move_type
                   IN  /\ proto' = [proto EXCEPT !["A"] =
                              IF t = "app" THEN [@ EXCEPT !.my_actions_count = @ + 1]
                              ELSE IF kind = MT_COMMITMENT
                              THEN [@ EXCEPT !.protocol_active = TRUE]
                              ELSE [@ EXCEPT !.opponent_actions_count = @ + 1]]
                       /\ thr' = [thr EXCEPT ![t] = [IdleThread EXCEPT
                                                       !.done = me.done + 1,
                                                       !.txs = me.txs]]
                       /\ last' = Called(IF t = "app" THEN "record_my_action"
                                         ELSE IF kind = MT_COMMITMENT
                                         THEN "set_opponent_commitment"
                                         ELSE "verify_opponent_action",
                                         "A", TRUE, "")
        /\ UNCHANGED <<game, enf, now, wire, tamper, merkleVars, netVars>>

NextThreads ==
    \/ \E t \in Threads : ThreadAdd(t)
    \/ \E t \in Threads : ThreadStep(t)

SpecThreads == Init /\ [][NextThreads]_vars

\* C20: protocol steps on one orchestrator are atomic under concurrency: when
\* both threads have returned from their operations, whatever the
\* interleaving was, every transaction that was added sits in exactly one
\* sealed block, none is lost, and no block holds transactions of two steps.
C20_AtomicSteps ==
    (\A t \in Threads : thr[t].pc = "idle") =>
        LET bc    == proto["A"].blockchain
            txs   == Flatten(bc.chain)
            added == thr["app"].txs \o thr["net"].txs
        IN  /\ bc.pending = <<>>
            /\ \A i \in 1..Len(added) :
                  Cardinality({j \in 1..Len(txs) : txs[j] = added[i]}) = 1
            /\ \A i \in 2..Len(bc.chain) : Len(bc.chain[i].transactions) = 1

\* both threads back from one operation each and the network thread's
\* commitment in no block: it was appended to the buffer after the other
\* thread had copied the buffer and before that thread cleared it
C20_Witness ==
    LET bc  == proto["A"].blockchain
        txs == Flatten(bc.chain)
    IN  /\ \A t \in Threads : thr[t].pc = "idle" /\ thr[t].done = 1
        /\ bc.pending = <<>>
        /\ Len(bc.chain) = 2
        /\ txs = thr["app"].txs
        /\ thr["net"].txs[1].move_type = MT_COMMITMENT
        /\ proto["A"].protocol_active

-----------------------------------------------------------------------------
(* Enforcement engine: the in-flight deadlines of ProtocolEnforcement and its
   timeout manager, the check the application polls and the one the
   background monitor runs. pending is the action_id -> deadline map in
   insertion order, a sequence of [action_id, deadline] *)

MaxTime == 5

TIMEOUT == "timeout"

PendingIds(e) == {e.pending[i].action_id : i \in DOMAIN e.pending}

\* start_action_with_timeout: deadline = now + duration, under the action id
start_action_with_timeout(e, action_id, duration, t) ==
    LET d == [action_id |-> action_id, deadline |-> t + duration]
    IN  IF action_id \in PendingIds(e)
        THEN [e EXCEPT !.pending =
                 [i \in DOMAIN @ |-> IF @[i].action_id = action_id THEN d ELSE @[i]]]
        ELSE [e EXCEPT !.pending = Append(@, d)]

\* a complete_action that answers without touching the map
complete_action_keeping(e, action_id) == e

\* complete_action: the deadline is removed if present
complete_action(e, action_id) ==
    [e EXCEPT !.pending = SelectSeq(@, LAMBDA d : d.action_id # action_id)]

\* a scan that reports a deadline from the moment it is reached and leaves
\* it registered
check_and_enforce_keeping(e, offender, t) ==
    LET timed_out == SelectSeq(e.pending, LAMBDA d : t >= d.deadline)
    IN  [e |-> e,
         violations |-> [i \in DOMAIN timed_out |->
                            [cheat_type |-> TIMEOUT, cheater_id |-> offender,
                             action_id |-> timed_out[i].action_id]]]

\* check_and_enforce: every deadline still pending past its time gives one
\* Timeout violation against the participant that owed the move, and is removed
check_and_enforce(e, offender, t) ==
    LET timed_out == SelectSeq(e.pending, LAMBDA d : t > d.deadline)
    IN  [e |-> [e EXCEPT !.pending = SelectSeq(@, LAMBDA d : ~(t > d.deadline))],
         violations |-> [i \in DOMAIN timed_out |->
                            [cheat_type |-> TIMEOUT, cheater_id |-> offender,
                             action_id |-> timed_out[i].action_id]]]

RECURSIVE ForwardViolations(_, _)
\* each violation goes to the cheat detector and invalidates its participant
ForwardViolations(g, violations) ==
    IF violations = <<>> THEN g
    ELSE ForwardViolations(
             invalidate_participant(
                 record_cheat(g, Head(violations).cheat_type, Head(violations).cheater_id),
                 Head(violations).cheater_id),
             Tail(violations))

\* a check that returns the violations and forwards none
check_enforcement_silent(e, g, p, t) ==
    LET r == check_and_enforce(e, p.opponent_participant_id, t)
    IN  [e |-> r.e, g |-> g, violations |-> r.violations]

\* ZeroTrustProtocol.check_enforcement: what the application polls and what
\* one round of the monitor loop runs
check_enforcement(e, g, p, t) ==
    LET r == check_and_enforce(e, p.opponent_participant_id, t)
    IN  [e |-> r.e, g |-> ForwardViolations(g, r.violations),
         violations |-> r.violations]

ActionIds == {"test_shot", "shot_response_0_0"}
Durations == {1, 2}

Checked(op, p, violations) ==
    [op |-> op, peer |-> p, valid |-> TRUE, reason |-> "", violations |-> violations]

\* registrations stop once MaxCheats violations are recorded or in flight, and
\* every registered deadline lies before MaxTime
StartActionWithTimeout(p, action_id, duration) ==
    /\ now + duration < MaxTime
    /\ action_id \in PendingIds(enf[p])
         \/ Len(game[p].cheats) + Len(enf[p].pending) <= MaxCheats
    /\ enf' = [enf EXCEPT ![p] = start_action_with_timeout(@, action_id, duration, now)]
    /\ last' = Called("start_action_with_timeout", p, TRUE, action_id)
    /\ UNCHANGED <<proto, game, now, wire, tamper, merkleVars, netVars, thr>>

CompleteAction(p, action_id) ==
    /\ enf' = [enf EXCEPT ![p] = complete_action(@, action_id)]
    /\ last' = Called("complete_action", p, TRUE, action_id)
    /\ UNCHANGED <<proto, game, now, wire, tamper, merkleVars, netVars, thr>>

CheckEnforcement(p) ==
    /\ LET r == check_enforcement(enf[p], game[p], proto[p], now)
       IN  /\ enf' = [enf EXCEPT ![p] = r.e]
           /\ game' = [game EXCEPT ![p] = r.g]
           /\ last' = Checked("check_enforcement", p, r.violations)
    /\ UNCHANGED <<proto, now, wire, tamper, merkleVars, netVars, thr>>

\* one round of the monitor thread started by start_monitoring
MonitorTick(p) ==
    /\ LET r == check_enforcement(enf[p], game[p], proto[p], now)
       IN  /\ enf' = [enf EXCEPT ![p] = r.e]
           /\ game' = [game EXCEPT ![p] = r.g]
           /\ last' = Checked("monitor", p, r.violations)
    /\ UNCHANGED <<proto, now, wire, tamper, merkleVars, netVars, thr>>

\* time passes
Sleep ==
    /\ now < MaxTime
    /\ now' = now + 1
    /\ last' = Called("sleep", "A", TRUE, "")
    /\ UNCHANGED <<proto, game, enf, wire, tamper, merkleVars, netVars, thr>>

NextEnforce ==
    \/ HonestExchange("A")
    \/ \E id \in ActionIds : \E d \in Durations : StartActionWithTimeout("A", id, d)
    \/ \E id \in ActionIds : CompleteAction("A", id)
    \/ CheckEnforcement("A")
    \/ MonitorTick("A")
    \/ Sleep

SpecEnforce == Init /\ [][NextEnforce]_vars

C22_CompleteAction ==
    [][/\ last'.op = "complete_action" /\ (\E id \in ActionIds : CompleteAction("A", id))
          => LET id == last'.reason
                 pend == enf["A"].pending
                 kept == {i \in DOMAIN pend : pend[i].action_id # id}
             IN  /\ PendingIds(enf'["A"]) = PendingIds(enf["A"]) \ {id}
                 /\ Len(enf'["A"].pending) = Cardinality(kept)
                 /\ \A i \in kept : \E j \in DOMAIN enf'["A"].pending :
                       enf'["A"].pending[j] = pend[i]
                 /\ enf'["A"].current_turn = enf["A"].current_turn
                 /\ game' = game
                 /\ id \notin PendingIds(enf["A"]) => enf' = enf
       /\ last'.op \in {"check_enforcement", "monitor"}
          /\ (CheckEnforcement("A") \/ MonitorTick("A"))
          => /\ \A i \in DOMAIN last'.violations :
                   last'.violations[i].action_id \in PendingIds(enf["A"])
             /\ Len(game'["A"].cheats) = Len(game["A"].cheats) + Len(last'.violations)
      ]_vars

\* shot_response_0_0 completed while test_shot is overdue and not yet
\* scanned: test_shot stays pending, nothing is on record
C22_Witness ==
    /\ last.op = "complete_action"
    /\ last.reason = "shot_response_0_0"
    /\ PendingIds(enf["A"]) = {"test_shot"}
    /\ now > enf["A"].pending[1].deadline
    /\ game["A"].cheats = <<>>

\* SpecMonitor: the application registers and completes deadlines and never
\* polls; the monitor thread runs a round every interval, and time passes
NextMonitor ==
    \/ HonestExchange("A")
    \/ \E id \in ActionIds : \E d \in Durations : StartActionWithTimeout("A", id, d)
    \/ \E id \in ActionIds : CompleteAction("A", id)
    \/ MonitorTick("A")
    \/ Sleep

SpecMonitor ==
    Init /\ [][NextMonitor]_vars /\ WF_vars(MonitorTick("A")) /\ WF_vars(Sleep)

-----------------------------------------------------------------------------
(* BattleshipZeroTrust: shots, incoming shots and the revealed grid *)

FORGED_SIGNATURE == "forged_signature"
COMMITMENT_MISMATCH == "commitment_mismatch"

Seen(shots, pos) == \E i \in DOMAIN shots : shots[i] = pos

\* BattleshipZeroTrust.fire_shot
fire_shot(g, p, x, y, timestamp) ==
    IF Seen(g.my_shots, <<x, y>>)
    THEN [g |-> g, p |-> p, ret |-> FALSE]
    ELSE LET r == record_my_action(p, "fire_shot", [x |-> x, y |-> y], timestamp)
         IN  [g |-> [g EXCEPT !.my_shots = Append(@, <<x, y>>)], p |-> r.p,
              ret |-> TRUE]

\* BattleshipZeroTrust.handle_incoming_shot for a position inside the grid;
\* ret tells whether a proof was returned (TRUE) or None (FALSE)
handle_incoming_shot(g, p, commitment_obj, x, y, action_data, signature, timestamp) ==
    LET verification == verify_opponent_action(p, action_data, signature, timestamp)
    IN  IF ~verification.ret.valid
        THEN [g |-> g, p |-> verification.p, ret |-> FALSE,
              reason |-> verification.ret.reason]
        ELSE IF Seen(g.opponent_shots, <<x, y>>)
        THEN [g |-> g, p |-> verification.p, ret |-> FALSE,
              reason |-> "Position already shot at!"]
        ELSE LET r == generate_proof(verification.p, commitment_obj, <<x, y>>, timestamp)
             IN  [g |-> [g EXCEPT !.opponent_shots = Append(@, <<x, y>>),
                                  !.hits_received =
                                      IF r.proof.has_ship THEN @ + 1 ELSE @],
                  p |-> r.p, ret |-> TRUE, reason |-> r.proof.result]

\* reveal_grid: grid_commitment_root is put into the dict reveal_commitment
\* returned, after it was signed
reveal_grid(p, ship_positions, commitment_obj, timestamp) ==
    LET r == reveal_commitment(p, ship_positions, timestamp)
    IN  [r EXCEPT !.revelation =
            [participant_id |-> @.participant_id,
             commitment_data |-> @.commitment_data,
             seed |-> @.seed, timestamp |-> @.timestamp,
             grid_commitment_root |-> commitment_obj.root]]

Flagged(g, cheat_type, cheater_id) ==
    invalidate_participant(record_cheat(g, cheat_type, cheater_id), cheater_id)

\* BattleshipZeroTrust.verify_opponent_grid after the commitment exchange
\* (before it, opponent_commitment_root is no attribute and the call raises)
verify_opponent_grid(g, p, revelation) ==
    LET result == verify_opponent_revelation(p, revelation, g.opponent_commitment_root)
        opp    == p.opponent_participant_id
        rv     == revelation.revelation
    IN  IF ~result.valid
        THEN [g |-> Flagged(g, FORGED_SIGNATURE, opp), ret |-> result]
        ELSE IF rv.seed[1] # "hex"
        THEN [g |-> g, ret |-> Result(FALSE, "Error verifying revelation")]
        ELSE LET reconstructed_commitment ==
                     Commitment(rv.commitment_data, fromhex(rv.seed), GridN)
             IN  IF reconstructed_commitment.root # g.opponent_commitment_root
                 THEN [g |-> Flagged(g, COMMITMENT_MISMATCH, opp),
                       ret |-> Result(FALSE, "OPPONENT CHEATED! Revealed grid doesn't match commitment - INVALIDATED")]
                 ELSE IF \E e \in g.my_shot_results :
                            (e[1] \in rv.commitment_data) # (e[2] = "hit")
                 THEN [g |-> Flagged(g, INVALID_PROOF, opp),
                       ret |-> Result(FALSE, "OPPONENT CHEATED! Lied about shot - INVALIDATED")]
                 ELSE [g |-> g,
                       ret |-> Result(TRUE, "Opponent's revealed grid matches commitment - no cheating detected!")]

\* what peer A may be handed as the opponent's revealed grid: a revelation as
\* reveal_commitment signs it, the dict reveal_grid returns, one signed by a
\* third participant, one unsigned, one signed over other positions than the
\* committed ones, one signed over a seed that is no hex text
OppGridRevelations ==
    LET B == NewProtocol("B", 0)
        honest == reveal_commitment(B, ShipsOf("B"), 0)
        odd == [honest.revelation EXCEPT !.seed = <<"str", "not hex">>]
    IN  OppRevelations \cup
        {reveal_grid(B, ShipsOf("B"), CommitObj("B"), 0),
         reveal_commitment(B, ShipsOf("A"), 0),
         [revelation |-> odd, signature |-> sign_message("B", json_dumps(odd))]}

HandleIncomingShot(p, action_data, signature) ==
    /\ LET r == handle_incoming_shot(game[p], proto[p], CommitObj(p),
                                     action_data.x, action_data.y,
                                     action_data, signature, now)
       IN  /\ Len(r.p.blockchain.chain) <= MaxChain
           /\ proto' = [proto EXCEPT ![p] = r.p]
           /\ game' = [game EXCEPT ![p] = r.g]
           /\ last' = Called("handle_incoming_shot", p, r.ret, r.reason)
    /\ now' = Later(p)
    /\ UNCHANGED <<enf, wire, tamper, merkleVars, netVars, thr>>

VerifyOpponentGrid(p, revelation) ==
    /\ IF ~game[p].has_root
       THEN /\ last' = Called("verify_opponent_grid", p, FALSE, "AttributeError")
            /\ game' = game
       ELSE LET r == verify_opponent_grid(game[p], proto[p], revelation)
            IN  /\ Len(r.g.cheats) <= MaxCheats
                /\ game' = [game EXCEPT ![p] = r.g]
                /\ last' = Called("verify_opponent_grid", p, r.ret.valid, r.ret.reason)
    /\ UNCHANGED <<proto, enf, now, wire, tamper, merkleVars, netVars, thr>>

NextGame ==
    \/ HonestExchange("A")
    \/ \E a \in OppActions("A") : HandleIncomingShot("A", a.data, a.signature)
    \/ AdvVerifyOpponentProof
    \/ \E r \in OppGridRevelations : VerifyOpponentGrid("A", r)

SpecGame == Init /\ [][NextGame]_vars

\* C24: a refused action signature in handle_incoming_shot, a refused proof
\* in verify_opponent_proof and a refused revelation in verify_opponent_grid
\* each leave a record in the cheat detector
C24_FailuresRecorded ==
    [][(/\ \/ /\ last'.op = "handle_incoming_shot"
              /\ last'.reason = "Invalid signature - opponent may be cheating!"
           \/ /\ last'.op \in {"verify_opponent_proof", "verify_opponent_grid"}
              /\ game["A"].has_root
              /\ ~last'.valid
        /\ NextGame)
       => has_detected_cheating(game'["A"])]_vars

\* a shot with a signature that does not verify was refused and the cheat
\* detector holds nothing
C24_Witness ==
    /\ last.op = "handle_incoming_shot"
    /\ last.reason = "Invalid signature - opponent may be cheating!"
    /\ ~has_detected_cheating(game["A"])

\* the opponent's signature over the fields reveal_commitment signs
SignedByOpponent(p, revelation) ==
    LET rv == revelation.revelation
    IN  verify_signature(
            json_dumps([participant_id |-> rv.participant_id,
                        commitment_data |-> rv.commitment_data,
                        seed |-> rv.seed, timestamp |-> rv.timestamp]),
            revelation.signature, p.opponent_public_key)

\* C25: verify_opponent_grid answers valid exactly for a revelation signed by
\* the opponent whose positions and seed give the stored root and agree with
\* every recorded shot result; any other revelation is answered invalid, is
\* put on record and invalidates the opponent
C25_GridVerdict ==
    [][\A r \in OppGridRevelations :
          (/\ last'.op = "verify_opponent_grid"
           /\ game["A"].has_root
           /\ VerifyOpponentGrid("A", r))
          => LET rv == r.revelation
                 good ==
                     /\ r.signature[1] # "empty"
                     /\ SignedByOpponent(proto["A"], r)
                     /\ rv.seed[1] = "hex"
                     /\ Commitment(rv.commitment_data, fromhex(rv.seed), GridN).root
                            = game["A"].opponent_commitment_root
                     /\ \A e \in game["A"].my_shot_results :
                            (e[1] \in rv.commitment_data) = (e[2] = "hit")
             IN  /\ last'.valid = good
                 /\ ~good =>
                       /\ Len(game'["A"].cheats) = Len(game["A"].cheats) + 1
                       /\ is_invalidated(game'["A"], proto["A"].opponent_participant_id)
      ]_vars

\* a revelation was refused for an error in rebuilding the commitment:
\* nothing on record, nobody invalidated
C25_Witness ==
    /\ last.op = "verify_opponent_grid"
    /\ last.reason = "Error verifying revelation"
    /\ game["A"].cheats = <<>>
    /\ game["A"].invalidated = {}

-----------------------------------------------------------------------------
(* StateManager: the persisted record holds the ledger's blocks, the
   orchestrator's counters and the enforcement state *)

\* a block as it is written: index, prev_hash, transactions, timestamp, hash
BlockToDict(b) ==
    [index |-> b.block_number, prev_hash |-> b.prev_hash,
     transactions |->
        [i \in DOMAIN b.transactions |->
            [kind |-> b.transactions[i].move_type,
             participant_id |-> b.transactions[i].participant_id,
             payload |-> b.transactions[i].data,
             timestamp |-> b.transactions[i].timestamp,
             signature |-> b.transactions[i].signature]],
     timestamp |-> b.timestamp, hash |-> b.hash]

\* a block read back as a new Block stamped with the time of the reading
BlockFromDictRestamped(d) ==
    Block(d.prev_hash,
          [i \in DOMAIN d.transactions |->
              Transaction(d.transactions[i].kind, d.transactions[i].participant_id,
                          d.transactions[i].payload, d.transactions[i].timestamp,
                          d.transactions[i].signature)],
          d.index, d.timestamp + 1)

\* a block read back with the fields it was written with
BlockFromDict(d) ==
    [prev_hash |-> d.prev_hash,
     transactions |->
        [i \in DOMAIN d.transactions |->
            Transaction(d.transactions[i].kind, d.transactions[i].participant_id,
                        d.transactions[i].payload, d.transactions[i].timestamp,
                        d.transactions[i].signature)],
     block_number |-> d.index, timestamp |-> d.timestamp, hash |-> d.hash]

\* StateManager.save_state: the record written to save_path
save_state(p, e) ==
    [blockchain |-> [i \in DOMAIN p.blockchain.chain |-> BlockToDict(p.blockchain.chain[i])],
     my_actions_count |-> p.my_actions_count,
     opponent_actions_count |-> p.opponent_actions_count,
     enforcement |-> [current_turn |-> e.current_turn, pending |-> e.pending]]

\* StateManager.load_state into the orchestrator p with enforcement state e
load_state(p, e, state) ==
    [p |-> [p EXCEPT !.blockchain =
                        [chain |-> [i \in DOMAIN state.blockchain |->
                                       BlockFromDict(state.blockchain[i])],
                         pending |-> <<>>],
                     !.my_actions_count = state.my_actions_count,
                     !.opponent_actions_count = state.opponent_actions_count],
     e |-> [e EXCEPT !.current_turn = state.enforcement.current_turn,
                     !.pending = state.enforcement.pending]]

\* the peer saves its state, a new game object is built from the same ship
\* positions and seed, and the state is loaded into its orchestrator
Restart(p) ==
    /\ LET r == load_state(NewProtocol(p, now), [current_turn |-> None, pending |-> <<>>],
                           save_state(proto[p], enf[p]))
       IN  /\ proto' = [proto EXCEPT ![p] = r.p]
           /\ enf' = [enf EXCEPT ![p] = r.e]
    /\ game' = [game EXCEPT ![p] = NewGame]
    /\ last' = Called("load_state", p, TRUE, "")
    /\ UNCHANGED <<now, wire, tamper, merkleVars, netVars, thr>>

NextPersist ==
    \/ AdvSetOpponentCommitment
    \/ AppRecordMyAction
    \/ AdvVerifyOpponentAction
    \/ AppGenerateProof
    \/ AdvVerifyOpponentProof
    \/ Restart("A")

SpecPersist == Init /\ [][NextPersist]_vars

-----------------------------------------------------------------------------
(* BlockchainSync: transactions of the peer's ledger merged into one's own *)

\* a merge that takes every incoming transaction
merge_transactions_all(bc, incoming, timestamp) ==
    LET merged == mine_block([bc EXCEPT !.pending = @ \o incoming], timestamp)
    IN  IF verify_chain(merged)
        THEN [bc |-> merged, ret |-> TRUE]
        ELSE [bc |-> bc, ret |-> FALSE]

\* BlockchainSync.merge_transactions: the incoming transactions that are not
\* in the ledger are added and sealed, the chain is verified again, and a
\* chain that does not verify is given up for the one there was
merge_transactions(bc, incoming, timestamp) ==
    LET new_txs == SelectSeq(incoming, LAMBDA tx : ~Seen(Flatten(bc.chain), tx))
        merged  == mine_block([bc EXCEPT !.pending = @ \o new_txs], timestamp)
    IN  IF verify_chain(merged)
        THEN [bc |-> merged, ret |-> TRUE]
        ELSE [bc |-> bc, ret |-> FALSE]

\* what the peer's ledger may hold: the commitment transaction both sides
\* record for B, and B's own closing transaction
PeerTxs ==
    <<Transaction(MT_COMMITMENT, PlayerId(Pub("B")), HonestCommitment("B"), 1,
                  <<"empty", "", "">>),
      Transaction(MT_TERMINATION, PlayerId(Pub("B")), [reason |-> "quit"], 0,
                  sign_message("B", json_dumps([reason |-> "quit"])))>>

IncomingLists == {PeerTxs, Tail(PeerTxs)}

MergeTransactions(p, incoming) ==
    /\ Room(p)
    /\ LET r == merge_transactions(proto[p].blockchain, incoming, now)
       IN  /\ proto' = [proto EXCEPT ![p].blockchain = r.bc]
           /\ last' = Called("merge_transactions", p, r.ret, "")
    /\ now' = Later(p)
    /\ UNCHANGED <<game, enf, wire, tamper, merkleVars, netVars, thr>>

NextSync ==
    \/ tamper = NoTamper /\ LedgerSetOpponentCommitment
    \/ tamper = NoTamper /\ AppRecordMyAction
    \/ Tamper
    \/ \E incoming \in IncomingLists : MergeTransactions("A", incoming)

SpecSync == Init /\ [][NextSync]_vars

\* C28: an accepted merge adds the incoming transactions that were not in the
\* ledger, in their order, as one sealed block, and leaves a chain that
\* verifies; with nothing new the ledger stays as it is, so a second merge of
\* the same list adds nothing; a refused merge leaves the ledger as it was
C28_Merge ==
    [][\A incoming \in IncomingLists :
          (last'.op = "merge_transactions" /\ MergeTransactions("A", incoming))
          => LET bc  == proto["A"].blockchain
                 old == Flatten(bc.chain)
                 new == SelectSeq(incoming,
                                  LAMBDA tx : \A i \in DOMAIN old : old[i] # tx)
                 bc2 == proto'["A"].blockchain
             IN  IF last'.valid
                 THEN /\ Flatten(bc2.chain) = old \o new
                      /\ bc2.pending = <<>>
                      /\ verify_chain(bc2)
                      /\ Len(bc2.chain) = Len(bc.chain) + (IF new = <<>> THEN 0 ELSE 1)
                      /\ new = <<>> => bc2 = bc
                 ELSE bc2 = bc
      ]_vars

\* the peer's list merged after the exchange, once or again: B's commitment,
\* which both ledgers hold, is there once, B's closing transaction follows it
C28_Witness ==
    LET txs == Flatten(proto["A"].blockchain.chain)
    IN  /\ last.op = "merge_transactions"
        /\ last.valid
        /\ tamper = NoTamper
        /\ Len(proto["A"].blockchain.chain) = 3
        /\ txs = PeerTxs

-----------------------------------------------------------------------------
(* ReconnectionHandler: wire holds the state of the connection, and while
   attempt_reconnection runs, the attempts made and the ceiling given *)

MaxAttempts == 2

\* a loop that goes on after max_attempts failures
reconnection_round_unbounded(w, connected) ==
    [phase |-> IF connected THEN "connected" ELSE "reconnecting",
     attempts |-> w.attempts + 1, max_attempts |-> w.max_attempts]

\* one round of attempt_reconnection's loop: connect_fn is called; its
\* success ends the loop, its max_attempts-th failure ends it too
reconnection_round(w, connected) ==
    [phase |-> IF connected THEN "connected"
               ELSE IF w.attempts + 1 >= w.max_attempts THEN "failed"
               ELSE "reconnecting",
     attempts |-> w.attempts + 1, max_attempts |-> w.max_attempts]

\* verify_state_after_reconnect: verify_chain and verify_all_signatures
verify_state_after_reconnect(p) ==
    verify_chain(p.blockchain) /\ verify_all_signatures(p).valid

\* handle_disconnect, then attempt_reconnection entered with a ceiling
HandleDisconnect(p, max_attempts) ==
    /\ wire.phase # "reconnecting"
    /\ wire' = [phase |-> "reconnecting", attempts |-> 0, max_attempts |-> max_attempts]
    /\ last' = Called("handle_disconnect", p, TRUE, "")
    /\ UNCHANGED <<proto, game, enf, now, tamper, merkleVars, netVars, thr>>

\* one round: a failed connect_fn leaves everything but the count; a
\* successful one is followed by the ledger sync with what the peer sends and
\* by verify_state_after_reconnect
AttemptReconnection(p, connected, incoming) ==
    /\ wire.phase = "reconnecting"
    /\ wire.attempts <= MaxAttempts + 1
    /\ wire' = reconnection_round(wire, connected)
    /\ IF connected
       THEN LET r == merge_transactions(proto[p].blockchain, incoming, now)
            IN  /\ Len(r.bc.chain) <= MaxChain
                /\ proto' = [proto EXCEPT ![p].blockchain = r.bc]
                /\ last' = Called("attempt_reconnection", p, TRUE,
                                  BoolStr(verify_state_after_reconnect(proto'[p])))
       ELSE /\ proto' = proto
            /\ last' = Called("attempt_reconnection", p, FALSE, "")
    /\ now' = Later(p)
    /\ UNCHANGED <<game, enf, tamper, merkleVars, netVars, thr>>

NextReconnect ==
    \/ LedgerSetOpponentCommitment
    \/ AppRecordMyAction
    \/ \E m \in 1..MaxAttempts : HandleDisconnect("A", m)
    \/ \E c \in BOOLEAN : \E incoming \in IncomingLists :
            AttemptReconnection("A", c, incoming)

SpecReconnect == Init /\ [][NextReconnect]_vars

\* C27: every round of attempt_reconnection is one call of connect_fn and
\* raises the count by one, never past max_attempts; a successful call ends
\* the loop with the ledger synchronised and the state verified; a failed
\* call leaves the ledger alone and ends the loop exactly when it was the
\* max_attempts-th; so the loop ends after at most max_attempts calls
C27_ReconnectionTerminates ==
    [][\A c \in BOOLEAN : \A incoming \in IncomingLists :
          (last'.op = "attempt_reconnection" /\ AttemptReconnection("A", c, incoming))
          => /\ wire.attempts < wire.max_attempts
             /\ wire'.attempts = wire.attempts + 1
             /\ wire'.max_attempts = wire.max_attempts
             /\ last'.valid = c
             /\ c => /\ wire'.phase = "connected"
                     /\ proto'["A"].blockchain
                            = merge_transactions(proto["A"].blockchain, incoming, now).bc
                     /\ last'.reason = BoolStr(verify_state_after_reconnect(proto'["A"]))
             /\ ~c => /\ proto' = proto
                      /\ wire'.phase = IF wire'.attempts = wire.max_attempts
                                       THEN "failed" ELSE "reconnecting"
      ]_vars

\* the second of two allowed attempts failed after a shot was fired: the
\* handler gave up
C27_Witness ==
    /\ last.op = "attempt_reconnection"
    /\ ~last.valid
    /\ wire = [phase |-> "failed", attempts |-> 2, max_attempts |-> 2]
    /\ proto["A"].my_actions_count = 1

-----------------------------------------------------------------------------
(* CryptoIdentity.__init__: the key pair and the player id derived from the
   seed and the list of ship positions *)

MaxFleet == 3

\* sorted() on a list of (x, y) tuples
sorted(ship_positions) ==
    SortSeq(ship_positions,
            LAMBDA a, b : a[1] < b[1] \/ (a[1] = b[1] /\ a[2] < b[2]))

\* a derivation that hashes the list in the order it was given
derive_keypair_unsorted(seed, ship_positions) ==
    LET ship_data    == json_dumps(ship_positions)
        key_material == sha256(<<seed, ship_data>>)
    IN  [private_key |-> <<"sk", key_material>>,
         public_key |-> Pub(<<"sk", key_material>>)]

\* _derive_keypair: sha256(seed + json.dumps(sorted(ship_positions)))
derive_keypair(seed, ship_positions) ==
    LET ship_data    == json_dumps(sorted(ship_positions))
        key_material == sha256(<<seed, ship_data>>)
    IN  [private_key |-> <<"sk", key_material>>,
         public_key |-> Pub(<<"sk", key_material>>)]

\* lists of distinct positions of a 2 x 2 grid, at most MaxFleet long
FleetLists ==
    {l \in UNION {[1..n -> (0..1) \X (0..1)] : n \in 0..MaxFleet} :
        \A i, j \in DOMAIN l : i # j => l[i] # l[j]}

\* CryptoIdentity(seed, ship_positions)
NewIdentity(seed, ship_positions) ==
    /\ LET kp == derive_keypair(seed, ship_positions)
       IN  last' = [op |-> "CryptoIdentity", peer |-> "A", valid |-> TRUE,
                    reason |-> "", seed |-> seed, ship_positions |-> ship_positions,
                    private_key |-> kp.private_key, public_key |-> kp.public_key,
                    player_id |-> PlayerId(kp.public_key)]
    /\ UNCHANGED <<proto, game, enf, now, wire, tamper, merkleVars, netVars, thr>>

NextIdentity ==
    \E k \in {"A", "B", Mallory} : \E l \in FleetLists : NewIdentity(SeedOf(k), l)

SpecIdentity == Init /\ [][NextIdentity]_vars

\* C29: two identities derived one after the other from the same seed and
\* from lists of the same positions in whatever order have the same private
\* key, public key and player id; and two identities with the same public
\* key have the same player id
C29_IdentityDeterministic ==
    [][(last.op = "CryptoIdentity" /\ last'.op = "CryptoIdentity")
       => /\ (/\ last'.seed = last.seed
              /\ Len(last'.ship_positions) = Len(last.ship_positions)
              /\ {last'.ship_positions[i] : i \in DOMAIN last'.ship_positions}
                     = {last.ship_positions[i] : i \in DOMAIN last.ship_positions})
             => /\ last'.private_key = last.private_key
                /\ last'.public_key = last.public_key
                /\ last'.player_id = last.player_id
          /\ last'.public_key = last.public_key => last'.player_id = last.player_id
          /\ last'.player_id = PlayerId(last'.public_key)
      ]_vars

\* an identity derived from three positions given in descending order
C29_Witness ==
    /\ last.op = "CryptoIdentity"
    /\ last.ship_positions = <<<<1, 1>>, <<1, 0>>, <<0, 0>>>>
    /\ last.private_key
           = derive_keypair(SeedOf("A"), <<<<0, 0>>, <<1, 0>>, <<1, 1>>>>).private_key

-----------------------------------------------------------------------------
(* CryptoBattleshipP2P with enforcement: the shooter's side of a shot *)

\* timeout=30.0 seconds, two ticks of the model's clock
ShotResponseTimeout == 2

\* f"shot_response_{x}_{y}" for the cells that are shot at
ShotActionId(x, y) ==
    IF <<x, y>> = <<0, 0>> THEN "shot_response_0_0" ELSE "shot_response_n_n"

\* ProtocolEnforcement.switch_turn: the turn goes to the other participant
switch_turn(e, p) ==
    [e EXCEPT !.current_turn = IF @ = p.my_participant_id
                               THEN p.opponent_participant_id
                               ELSE p.my_participant_id]

\* fire_crypto_shot: the deadline for the answer is registered, then
\* fire_shot decides whether the shot is fired; a fired shot is sent
FireCryptoShot(p, x, y) ==
    /\ Room(p)
    /\ now + ShotResponseTimeout < MaxTime
    /\ ShotActionId(x, y) \in PendingIds(enf[p])
         \/ Len(game[p].cheats) + Len(enf[p].pending) <= MaxCheats
    /\ LET r == fire_shot(game[p], proto[p], x, y, now)
       IN  /\ enf' = [enf EXCEPT ![p] =
                         start_action_with_timeout(@, ShotActionId(x, y),
                                                   ShotResponseTimeout, now)]
           /\ proto' = [proto EXCEPT ![p] = r.p]
           /\ game' = [game EXCEPT ![p] = r.g]
           /\ last' = Called("fire_crypto_shot", p, r.ret, ShotActionId(x, y))
    /\ now' = Later(p)
    /\ UNCHANGED <<wire, tamper, merkleVars, netVars, thr>>

\* _handle_crypto_message, SHOT_RESULT: the proof is verified; a verified
\* proof passes the turn, a refused one ends the game
HandleShotResult(p, proof, proof_signature) ==
    /\ Room(p)
    /\ LET r == verify_opponent_proof(game[p], proto[p], proof, proof_signature, now)
       IN  /\ Len(r.g.cheats) <= MaxCheats
           /\ proto' = [proto EXCEPT ![p] = r.p]
           /\ game' = [game EXCEPT ![p] = r.g]
           /\ enf' = IF r.ret THEN [enf EXCEPT ![p] = switch_turn(@, proto[p])] ELSE enf
           /\ last' = Called("shot_result", p, r.ret, r.reason)
    /\ now' = Later(p)
    /\ UNCHANGED <<wire, tamper, merkleVars, netVars, thr>>

NextShots ==
    \/ HonestExchange("A")
    \/ \E c \in QueryCells : FireCryptoShot("A", c[1], c[2])
    \/ \E sp \in OppProofs("A") : HandleShotResult("A", sp.proof, sp.signature)
    \/ CheckEnforcement("A")
    \/ MonitorTick("A")
    \/ Sleep

SpecShots == Init /\ [][NextShots]_vars

\* C30: when the proof answering a shot verifies, the shot's deadline is
\* completed; no scan reports a Timeout for a shot whose result is verified;
\* and a refused fire_crypto_shot leaves the pending deadlines as they were
C30_TimelyResponse ==
    [][/\ \A sp \in OppProofs("A") :
            (/\ last'.op = "shot_result"
             /\ last'.valid
             /\ HandleShotResult("A", sp.proof, sp.signature))
            => ShotActionId(sp.proof.position[1], sp.proof.position[2])
                   \notin PendingIds(enf'["A"])
       /\ (/\ last'.op \in {"check_enforcement", "monitor"}
           /\ (CheckEnforcement("A") \/ MonitorTick("A")))
          => \A i \in DOMAIN last'.violations :
                \A e \in game["A"].my_shot_results :
                    last'.violations[i].action_id # ShotActionId(e[1][1], e[1][2])
       /\ (/\ last'.op = "fire_crypto_shot"
           /\ ~last'.valid
           /\ \E c \in QueryCells : FireCryptoShot("A", c[1], c[2]))
          => enf'["A"].pending = enf["A"].pending
      ]_vars

\* B's proof for the shot at (0, 0) was verified, and the monitor then
\* reported a Timeout for that shot and invalidated B
C30_Witness ==
    /\ last.op = "monitor"
    /\ Len(last.violations) = 1
    /\ last.violations[1].action_id = "shot_response_0_0"
    /\ <<<<0, 0>>, "miss">> \in game["A"].my_shot_results
    /\ Seen(game["A"].my_shots, <<0, 0>>)
    /\ game["A"].cheats = <<[cheat_type |-> TIMEOUT, cheater_id |-> PlayerId(Pub("B"))]>>
    /\ is_invalidated(game["A"], PlayerId(Pub("B")))

-----------------------------------------------------------------------------
(* ZeroTrustProtocol: what a refused commitment leaves behind *)

\* C33: a set_opponent_commitment that returns invalid leaves the
\* opponent's id, public key and commitment, protocol_active and the ledger
\* as they were
C33_FailedCommitmentFrame ==
    [][\A c \in OppCommitments("A") :
        (/\ last'.op = "set_opponent_commitment"
         /\ ~last'.valid
         /\ SetOpponentCommitment("A", c))
        => LET p == proto["A"]
               q == proto'["A"]
           IN  /\ q.opponent_participant_id = p.opponent_participant_id
               /\ q.opponent_public_key = p.opponent_public_key
               /\ q.opponent_commitment = p.opponent_commitment
               /\ q.protocol_active = p.protocol_active
               /\ q.blockchain = p.blockchain
      ]_vars

\* the first commitment A receives carries B's id and a key that does not
\* decode: the call is refused, yet B's id is stored as the opponent's
C33_Witness ==
    /\ last.op = "set_opponent_commitment"
    /\ ~last.valid
    /\ proto["A"].opponent_participant_id = PlayerId(Pub("B"))
    /\ proto["A"].opponent_public_key = None
    /\ proto["A"].opponent_commitment = None
    /\ proto["A"].blockchain = NewBlockchain(0)
    /\ game["A"] = NewGame

\* C34: an Action or Result transaction is in the ledger only when the
\* protocol is active and a Commitment transaction precedes it in the chain
C34_ActiveBeforeActions ==
    LET p   == proto["A"]
        txs == Flatten(p.blockchain.chain)
    IN  \A i \in DOMAIN txs :
            txs[i].move_type \in {MT_ACTION, MT_RESULT}
            => /\ p.protocol_active
               /\ \E j \in 1..(i - 1) : txs[j].move_type = MT_COMMITMENT

\* record_my_action and generate_proof ran on a fresh orchestrator: the
\* ledger holds an Action and a Result, no Commitment, and the protocol
\* is not active
C34_Witness ==
    LET p   == proto["A"]
        txs == Flatten(p.blockchain.chain)
    IN  /\ ~p.protocol_active
        /\ p.opponent_public_key = None
        /\ Len(txs) = 2
        /\ txs[1].move_type = MT_ACTION
        /\ txs[2].move_type = MT_RESULT
        /\ p.my_actions_count = 1

\* the number of sealed Action transactions attributed to participant_id
ActionsOf(p, participant_id) ==
    LET txs == Flatten(p.blockchain.chain)
    IN  Cardinality({i \in DOMAIN txs : /\ txs[i].move_type = MT_ACTION
                                        /\ txs[i].participant_id = participant_id})

\* C35: my_actions_count is the number of sealed Action transactions
\* attributed to this participant, opponent_actions_count the number
\* attributed to the stored opponent id
C35_CountersMirrorLedger ==
    LET p == proto["A"]
    IN  /\ p.my_actions_count = ActionsOf(p, p.my_participant_id)
        /\ p.opponent_actions_count = ActionsOf(p, p.opponent_participant_id)

\* B committed and one action of B was verified, then a third participant's
\* commitment was accepted: the counter still says 1, no Action transaction
\* is attributed to the stored opponent
C35_Witness ==
    LET p == proto["A"]
    IN  /\ last.op = "set_opponent_commitment"
        /\ last.valid
        /\ p.opponent_participant_id = PlayerId(Pub(Mallory))
        /\ p.opponent_actions_count = 1
        /\ ActionsOf(p, PlayerId(Pub("B"))) = 1
        /\ ActionsOf(p, p.opponent_participant_id) = 0

-----------------------------------------------------------------------------
(* CryptoBattleshipP2P with enforcement: the responder's side of a shot *)

\* _handle_crypto_message, FIRE_SHOT: x and y are read from the message, the
\* deadline for the answer is registered, handle_incoming_shot is given x, y
\* and the message's action_data and signature; when it returns a proof the
\* proof is sent and the deadline completed
HandleFireShot(p, x, y, action_data, signature) ==
    /\ HonestRoom(p)
    /\ LET action_id == ShotActionId(x, y)
           e1 == start_action_with_timeout(enf[p], action_id, ShotResponseTimeout, now)
           r  == handle_incoming_shot(game[p], proto[p], CommitObj(p), x, y,
                                      action_data, signature, now)
       IN  /\ proto' = [proto EXCEPT ![p] = r.p]
           /\ game' = [game EXCEPT ![p] = r.g]
           /\ enf' = [enf EXCEPT ![p] = IF r.ret THEN complete_action(e1, action_id)
                                                  ELSE e1]
           /\ last' = Called("fire_shot_message", p, r.ret, r.reason)
    /\ now' = Later(p)
    /\ UNCHANGED <<wire, tamper, merkleVars, netVars, thr>>

NextIncoming ==
    \/ HonestExchange("A")
    \/ \E c \in QueryCells : \E a \in OppActions("A") :
          HandleFireShot("A", c[1], c[2], a.data, a.signature)
    \/ MonitorTick("A")
    \/ Sleep

SpecIncoming == Init /\ [][NextIncoming]_vars

\* C32: a proof is generated for (x, y) only when the x and y of the signed
\* action_data that was verified are the x and y of the call
C32_ProofAnswersSignedMove ==
    [][\A c \in QueryCells : \A a \in OppActions("A") :
        (/\ last'.op = "fire_shot_message"
         /\ last'.valid
         /\ HandleFireShot("A", c[1], c[2], a.data, a.signature))
        => a.data.x = c[1] /\ a.data.y = c[2]
      ]_vars

\* B's signed shot at (0, 0) came in a message naming the far corner: the
\* ledger holds B's Action for (0, 0) followed by A's Result for the corner
C32_Witness ==
    LET txs == Flatten(proto["A"].blockchain.chain)
    IN  /\ last.op = "fire_shot_message"
        /\ last.valid
        /\ game["A"].opponent_shots = << <<GridN - 1, GridN - 1>> >>
        /\ Len(txs) = 3
        /\ txs[2].move_type = MT_ACTION
        /\ <<txs[2].data.x, txs[2].data.y>> = <<0, 0>>
        /\ txs[3].move_type = MT_RESULT
        /\ txs[3].data.position = <<GridN - 1, GridN - 1>>

\* C36: an incoming shot at a position already in opponent_shots returns no
\* proof and leaves opponent_shots, hits_received, the ledger and
\* opponent_actions_count as they were
C36_RepeatedShotFrame ==
    [][\A c \in QueryCells : \A a \in OppActions("A") :
        (/\ last'.op = "fire_shot_message"
         /\ Seen(game["A"].opponent_shots, c)
         /\ HandleFireShot("A", c[1], c[2], a.data, a.signature))
        => /\ ~last'.valid
           /\ game'["A"].opponent_shots = game["A"].opponent_shots
           /\ game'["A"].hits_received = game["A"].hits_received
           /\ proto'["A"].blockchain = proto["A"].blockchain
           /\ proto'["A"].opponent_actions_count = proto["A"].opponent_actions_count
      ]_vars

\* B's shot at (0, 0) was answered, then the same shot came again: no proof,
\* yet a second Action of B is sealed and counted
C36_Witness ==
    /\ last.op = "fire_shot_message"
    /\ ~last.valid
    /\ last.reason = "Position already shot at!"
    /\ game["A"].opponent_shots = << <<0, 0>> >>
    /\ game["A"].hits_received = 1
    /\ proto["A"].opponent_actions_count = 2
    /\ ActionsOf(proto["A"], PlayerId(Pub("B"))) = 2

-----------------------------------------------------------------------------
(* Two BattleshipZeroTrust peers playing: the verdict of check_game_over *)

\* BattleshipZeroTrust.check_game_over: the winner's id or None
check_game_over(g, p) ==
    IF g.hits_received >= g.total_ship_cells THEN p.opponent_participant_id
    ELSE IF g.confirmed_hits_on_opponent >= g.total_ship_cells THEN p.my_participant_id
    ELSE None

\* the fleets B may commit to: one cell, or two
FleetsOfB == {ShipsOf("B"), ShipsOf("B") \cup {<<0, GridN - 1>>}}

\* BattleshipZeroTrust.__init__: the grid commitment and total_ship_cells
\* come from the ship positions given to the constructor
NewPlayer(k, ship_positions) ==
    [has_root |-> FALSE, opponent_commitment_root |-> None,
     cheats |-> <<>>, invalidated |-> {},
     my_shot_results |-> {}, confirmed_hits_on_opponent |-> 0,
     my_shots |-> <<>>, opponent_shots |-> <<>>, hits_received |-> 0,
     grid_commitment |-> Commitment(ship_positions, SeedOf(k), GridN),
     total_ship_cells |-> Cardinality(ship_positions)]

InitPlayers ==
    /\ proto = [p \in Peers |-> NewProtocol(p, 0)]
    /\ \E fleet \in FleetsOfB :
          game = [p \in Peers |->
                     NewPlayer(p, IF p = "A" THEN ShipsOf("A") ELSE fleet)]
    /\ enf = [p \in Peers |-> [current_turn |-> PlayerId(Pub("A")),
                               pending |-> <<>>]]
    /\ last = Called("init", "A", TRUE, "")
    /\ now = 1
    /\ wire = NoWire
    /\ tamper = NoTamper
    /\ thr = [t \in Threads |-> IdleThread]
    /\ p2p = [p \in Peers |-> NewP2P(PlayerId(Pub(p)))]
    /\ net = [p \in Peers |-> <<>>]
    /\ InitMerkleOff

\* both peers hand each other get_commitment_data()
PlayersExchange(p) ==
    /\ wire = NoWire
    /\ ~Committed(p)
    /\ LET q == Other(p)
           r == game_set_opponent_commitment(game[p], proto[p],
                    get_commitment_data(proto[q], game[q].grid_commitment), now)
       IN  /\ proto' = [proto EXCEPT ![p] = r.p]
           /\ game' = [game EXCEPT ![p] = r.g]
           /\ last' = Called("set_opponent_commitment", p, r.ret, r.reason)
    /\ now' = Later(p)
    /\ UNCHANGED <<enf, wire, tamper, merkleVars, netVars, thr>>

\* the shooter: fire_shot, the signed action goes out
PlayersFire(s, x, y) ==
    /\ wire = NoWire
    /\ Committed("A") /\ Committed("B")
    /\ HonestRoom(s)
    /\ LET r == fire_shot(game[s], proto[s], x, y, now)
           tx == r.p.blockchain.chain[Len(r.p.blockchain.chain)].transactions[1]
       IN  /\ r.ret
           /\ proto' = [proto EXCEPT ![s] = r.p]
           /\ game' = [game EXCEPT ![s] = r.g]
           /\ wire' = [phase |-> "shot", shooter |-> s, x |-> x, y |-> y,
                       data |-> tx.data, signature |-> tx.signature]
           /\ last' = Called("fire_shot", s, TRUE, "signed")
    /\ now' = Later(s)
    /\ UNCHANGED <<enf, tamper, merkleVars, netVars, thr>>

\* the responder: handle_incoming_shot, the signed proof goes out
PlayersAnswer ==
    /\ wire.phase = "shot"
    /\ LET q == Other(wire.shooter)
           r == handle_incoming_shot(game[q], proto[q], game[q].grid_commitment,
                                     wire.x, wire.y, wire.data, wire.signature, now)
           tx == r.p.blockchain.chain[Len(r.p.blockchain.chain)].transactions[1]
       IN  /\ proto' = [proto EXCEPT ![q] = r.p]
           /\ game' = [game EXCEPT ![q] = r.g]
           /\ wire' = IF r.ret
                      THEN [phase |-> "proof", shooter |-> wire.shooter,
                            proof |-> grid_generate_proof(game[q].grid_commitment,
                                                          wire.x, wire.y),
                            signature |-> tx.signature]
                      ELSE NoWire
           /\ last' = Called("handle_incoming_shot", q, r.ret, r.reason)
    /\ now' = Later(Other(wire.shooter))
    /\ UNCHANGED <<enf, tamper, merkleVars, netVars, thr>>

\* the shooter: verify_opponent_proof on the proof that came back
PlayersVerify ==
    /\ wire.phase = "proof"
    /\ LET s == wire.shooter
           r == verify_opponent_proof(game[s], proto[s], wire.proof,
                                      wire.signature, now)
       IN  /\ proto' = [proto EXCEPT ![s] = r.p]
           /\ game' = [game EXCEPT ![s] = r.g]
           /\ last' = Called("verify_opponent_proof", s, r.ret, r.reason)
    /\ wire' = NoWire
    /\ now' = Later(wire.shooter)
    /\ UNCHANGED <<enf, tamper, merkleVars, netVars, thr>>

\* either peer asks for the verdict between two exchanges
CheckGameOver(p) ==
    /\ wire = NoWire
    /\ LET winner == check_game_over(game[p], proto[p])
       IN  last' = [op |-> "check_game_over", peer |-> p,
                    valid |-> winner # None, reason |-> "", winner |-> winner]
    /\ UNCHANGED <<proto, game, enf, now, wire, tamper, merkleVars, netVars, thr>>

NextPlayers ==
    \/ \E p \in Peers : PlayersExchange(p)
    \/ \E s \in Peers : \E c \in QueryCells : PlayersFire(s, c[1], c[2])
    \/ PlayersAnswer
    \/ PlayersVerify
    \/ \E p \in Peers : CheckGameOver(p)

SpecPlayers == InitPlayers /\ [][NextPlayers]_vars

\* C37: between two shot exchanges, a winner named by check_game_over on
\* one peer is the winner named by check_game_over on the other
C37_SameVerdict ==
    wire = NoWire =>
        \A p \in Peers :
            check_game_over(game[p], proto[p]) # None
            => check_game_over(game[Other(p)], proto[Other(p)])
                   = check_game_over(game[p], proto[p])

\* B committed two ship cells, A one; A's shot hit one of B's cells and the
\* proof was verified: A's check_game_over names A, B's names nobody
C37_Witness ==
    /\ last.op = "check_game_over"
    /\ last.peer = "A"
    /\ last.winner = PlayerId(Pub("A"))
    /\ game["A"].total_ship_cells = 1
    /\ game["B"].total_ship_cells = 2
    /\ game["A"].confirmed_hits_on_opponent = 1
    /\ game["B"].hits_received = 1
    /\ check_game_over(game["B"], proto["B"]) = None

-----------------------------------------------------------------------------
(* CryptoBattleshipP2P: two connected peers, the command loop and the
   messages between them *)

MaxNet == 2    \* no message is sent to a peer with this many in flight

\* _send_message: the message is queued for the other peer unless the
\* connection is not established
send_message(n, k, msg_type, data) ==
    IF p2p[k].connection_established
    THEN [n EXCEPT ![Other(k)] =
             Append(@, [message_type |-> msg_type, message_data |-> data,
                        sender_id |-> p2p[k].player_id])]
    ELSE n

NetRoom(k) == Len(net[Other(k)]) < MaxNet

\* the turn check of the command loop before it fires
MayFire(k) == p2p[k].phase = "playing" /\ p2p[k].current_turn = p2p[k].player_id

\* two peers after the connection handshake
InitConnected ==
    /\ proto = [p \in Peers |-> NewProtocol(p, 0)]
    /\ game = [p \in Peers |-> NewGame]
    /\ enf = [p \in Peers |-> [current_turn |-> PlayerId(Pub("A")),
                               pending |-> <<>>]]
    /\ last = Called("init", "A", TRUE, "")
    /\ now = 1
    /\ wire = NoWire
    /\ tamper = NoTamper
    /\ thr = [t \in Threads |-> IdleThread]
    /\ p2p = [p \in Peers |->
                 [NewP2P(PlayerId(Pub(p))) EXCEPT
                     !.connection_established = TRUE,
                     !.connection_role = IF p = "A" THEN "listener" ELSE "connector",
                     !.phase = "setup",
                     !.has_handshake_step = TRUE, !.handshake_step = 1]]
    /\ net = [p \in Peers |-> <<>>]
    /\ InitMerkleOff

\* the command "invite": send_crypto_game_invite while in phase SETUP
CliInvite(k) ==
    /\ p2p[k].phase = "setup"
    /\ NetRoom(k)
    /\ net' = send_message(net, k, "game_invite",
                           [commitment |-> get_commitment_data(proto[k], CommitObj(k)),
                            inviter_id |-> p2p[k].player_id])
    /\ last' = Called("send_crypto_game_invite", k, TRUE, "")
    /\ UNCHANGED <<proto, game, enf, now, wire, tamper, thr, p2p, merkleVars>>

\* the command "fire": phase and turn are checked, a cell already fired at
\* is refused, then fire_crypto_shot registers the deadline, fires and sends
CliFire(k, x, y) ==
    /\ MayFire(k)
    /\ ~Seen(game[k].my_shots, <<x, y>>)
    /\ HonestRoom(k)
    /\ NetRoom(k)
    /\ LET r  == fire_shot(game[k], proto[k], x, y, now)
           tx == r.p.blockchain.chain[Len(r.p.blockchain.chain)].transactions[1]
       IN  /\ enf' = [enf EXCEPT ![k] =
                         start_action_with_timeout(@, ShotActionId(x, y),
                                                   ShotResponseTimeout, now)]
           /\ proto' = [proto EXCEPT ![k] = r.p]
           /\ game' = [game EXCEPT ![k] = r.g]
           /\ net' = send_message(net, k, "fire_shot",
                                  [x |-> x, y |-> y, action_data |-> tx.data,
                                   signature |-> tx.signature])
           /\ last' = Called("fire_crypto_shot", k, r.ret, ShotActionId(x, y))
    /\ now' = Later(k)
    /\ UNCHANGED <<wire, tamper, thr, p2p, merkleVars>>

\* commitment.get("participant_id") or commitment.get("player_id")
OpponentIdOf(commitment) ==
    IF commitment.participant_id = Missing THEN None ELSE commitment.participant_id

\* _handle_protocol_message and _handle_crypto_message for the message at
\* the head of the queue: opponent_id is taken from the first sender, then
\* the branch of the message's type runs
CryptoDeliver(k) ==
    /\ net[k] # <<>>
    /\ HonestRoom(k)
    /\ LET m    == Head(net[k])
           d    == m.message_data
           rest == [net EXCEPT ![k] = Tail(@)]
           pp   == [p2p[k] EXCEPT !.opponent_id = IF @ = None THEN m.sender_id ELSE @]
       IN  CASE m.message_type = "game_invite" ->
                  LET r == game_set_opponent_commitment(game[k], proto[k],
                                                        d.commitment, now)
                  IN  /\ proto' = [proto EXCEPT ![k] = r.p]
                      /\ game' = [game EXCEPT ![k] = r.g]
                      /\ net' = send_message(rest, k, "game_accept",
                                    [commitment |-> get_commitment_data(proto[k],
                                                                        CommitObj(k))])
                      /\ p2p' = [p2p EXCEPT ![k] =
                                    [pp EXCEPT !.opponent_id = OpponentIdOf(d.commitment),
                                               !.phase = "playing",
                                               !.current_turn = d.inviter_id]]
                      /\ last' = Called("deliver", k, r.ret, "game_invite")
                      /\ UNCHANGED enf
             [] m.message_type = "game_accept" ->
                  LET r == game_set_opponent_commitment(game[k], proto[k],
                                                        d.commitment, now)
                  IN  /\ proto' = [proto EXCEPT ![k] = r.p]
                      /\ game' = [game EXCEPT ![k] = r.g]
                      /\ net' = rest
                      /\ p2p' = [p2p EXCEPT ![k] =
                                    [pp EXCEPT !.opponent_id = OpponentIdOf(d.commitment),
                                               !.phase = "playing",
                                               !.current_turn = pp.player_id]]
                      /\ last' = Called("deliver", k, r.ret, "game_accept")
                      /\ UNCHANGED enf
             [] m.message_type = "fire_shot" ->
                  LET action_id == ShotActionId(d.x, d.y)
                      e1 == start_action_with_timeout(enf[k], action_id,
                                                      ShotResponseTimeout, now)
                      r  == handle_incoming_shot(game[k], proto[k], CommitObj(k),
                                                 d.x, d.y, d.action_data, d.signature, now)
                      tx == r.p.blockchain.chain[Len(r.p.blockchain.chain)].transactions[1]
                  IN  /\ proto' = [proto EXCEPT ![k] = r.p]
                      /\ game' = [game EXCEPT ![k] = r.g]
                      /\ enf' = [enf EXCEPT ![k] =
                                    IF r.ret THEN complete_action(e1, action_id) ELSE e1]
                      /\ net' = IF r.ret
                                THEN send_message(rest, k, "shot_result",
                                         [proof |-> grid_generate_proof(CommitObj(k), d.x, d.y),
                                          signature |-> tx.signature])
                                ELSE rest
                      /\ p2p' = [p2p EXCEPT ![k] = pp]
                      /\ last' = Called("deliver", k, r.ret, "fire_shot")
             [] m.message_type = "shot_result" ->
                  LET r == verify_opponent_proof(game[k], proto[k], d.proof,
                                                 d.signature, now)
                  IN  /\ proto' = [proto EXCEPT ![k] = r.p]
                      /\ game' = [game EXCEPT ![k] = r.g]
                      /\ enf' = IF r.ret
                                THEN [enf EXCEPT ![k] = switch_turn(@, proto[k])]
                                ELSE enf
                      /\ net' = IF r.ret THEN rest
                                ELSE send_message(rest, k, "game_over",
                                                  [winner |-> pp.player_id])
                      /\ p2p' = [p2p EXCEPT ![k] =
                                    IF r.ret THEN [pp EXCEPT !.current_turn = pp.opponent_id]
                                             ELSE pp]
                      /\ last' = Called("deliver", k, r.ret, "shot_result")
             [] OTHER ->
                  /\ net' = rest
                  /\ p2p' = [p2p EXCEPT ![k] = [pp EXCEPT !.phase = "game_over"]]
                  /\ last' = Called("deliver", k, TRUE, "game_over")
                  /\ UNCHANGED <<proto, game, enf>>
    /\ now' = Later(k)
    /\ UNCHANGED <<wire, tamper, thr, merkleVars>>

NextTurns ==
    \/ \E k \in Peers : CliInvite(k)
    \/ \E k \in Peers : \E c \in QueryCells : CliFire(k, c[1], c[2])
    \/ \E k \in Peers : CryptoDeliver(k)

SpecTurns == InitConnected /\ [][NextTurns]_vars

Quiet == \A k \in Peers : net[k] = <<>>

\* C31: once both peers play and no message is in flight, both hold the
\* same current_turn and it names one of them, who may then fire
C31_TurnsAgree ==
    (Quiet /\ \A k \in Peers : p2p[k].phase = "playing")
    => /\ p2p["A"].current_turn = p2p["B"].current_turn
       /\ \E k \in Peers : MayFire(k)

\* A invited, B accepted, A fired and verified B's proof: A's current_turn
\* names B, B's still names A, and neither peer passes the turn check
C31_Witness ==
    /\ Quiet
    /\ last = Called("deliver", "A", TRUE, "shot_result")
    /\ Len(proto["A"].blockchain.chain) = 4
    /\ Len(proto["B"].blockchain.chain) = 4
    /\ p2p["A"].current_turn = PlayerId(Pub("B"))
    /\ p2p["B"].current_turn = PlayerId(Pub("A"))
    /\ ~MayFire("A") /\ ~MayFire("B")

-----------------------------------------------------------------------------
(* BattleshipP2P: starting the game once both fleets are placed *)

\* _check_start_game: when both sides are ready, first_turn (the outcome of
\* random.choice([player_id, opponent_id])) is announced and adopted
check_start_game(pp, n, k, first_turn) ==
    IF pp.ships_ready /\ pp.opponent_ships_ready
    THEN [pp |-> [pp EXCEPT !.current_turn = first_turn, !.phase = "playing"],
          n  |-> send_message(n, k, "start_game", [first_turn |-> first_turn])]
    ELSE [pp |-> pp, n |-> n]

\* set_ships_ready, called once by each peer
SetShipsReady(k) ==
    /\ ~p2p[k].ships_ready
    /\ \E first_turn \in {p2p[k].player_id, p2p[k].opponent_id} :
          LET pp == [p2p[k] EXCEPT !.ships_ready = TRUE]
              n  == send_message(net, k, "ships_ready", [ship_count |-> 1])
              r  == check_start_game(pp, n, k, first_turn)
          IN  /\ p2p' = [p2p EXCEPT ![k] = r.pp]
              /\ net' = r.n
    /\ last' = Called("set_ships_ready", k, TRUE, "")
    /\ UNCHANGED <<proto, game, enf, now, wire, tamper, thr, merkleVars>>

\* send_game_invite: refused outside phase SETUP
SendGameInvite(k) ==
    /\ NetRoom(k)
    /\ IF p2p[k].phase # "setup"
       THEN /\ last' = Called("send_game_invite", k, FALSE, "")
            /\ UNCHANGED <<p2p, net>>
       ELSE /\ p2p' = [p2p EXCEPT ![k].phase = "inviting"]
            /\ net' = send_message(net, k, "game_invite", [config |-> "default"])
            /\ last' = Called("send_game_invite", k, TRUE, "")
    /\ UNCHANGED <<proto, game, enf, now, wire, tamper, thr, merkleVars>>

\* _handle_protocol_message and _handle_game_message for the message at the
\* head of the queue: _handle_game_invite (which accepts), _handle_game_accept,
\* _handle_ships_ready or _handle_start_game
BaseDeliver(k) ==
    /\ net[k] # <<>>
    /\ LET m    == Head(net[k])
           rest == [net EXCEPT ![k] = Tail(@)]
           pp   == [p2p[k] EXCEPT !.opponent_id = IF @ = None THEN m.sender_id ELSE @]
       IN  CASE m.message_type = "game_invite" ->
                  /\ p2p' = [p2p EXCEPT ![k] = pp]
                  /\ net' = send_message(rest, k, "game_accept", <<>>)
             [] m.message_type = "game_accept" ->
                  /\ p2p' = [p2p EXCEPT ![k] = [pp EXCEPT !.phase = "setup"]]
                  /\ net' = rest
             [] m.message_type = "ships_ready" ->
                  \E first_turn \in {pp.player_id, pp.opponent_id} :
                     LET r == check_start_game([pp EXCEPT !.opponent_ships_ready = TRUE],
                                               rest, k, first_turn)
                     IN  /\ p2p' = [p2p EXCEPT ![k] = r.pp]
                         /\ net' = r.n
             [] OTHER ->
                  /\ p2p' = [p2p EXCEPT ![k] =
                                [pp EXCEPT !.current_turn = m.message_data.first_turn,
                                           !.phase = "playing"]]
                  /\ net' = rest
    /\ last' = Called("deliver", k, TRUE, Head(net[k]).message_type)
    /\ UNCHANGED <<proto, game, enf, now, wire, tamper, thr, merkleVars>>

NextStart ==
    \/ SendGameInvite("A")
    \/ \E k \in Peers : SetShipsReady(k)
    \/ \E k \in Peers : BaseDeliver(k)

SpecStart == InitConnected /\ [][NextStart]_vars

\* C38: once both peers have called set_ships_ready and every message has
\* been delivered, both are in phase PLAYING and hold the same current_turn
C38_SameFirstTurn ==
    (Quiet /\ \A k \in Peers : p2p[k].ships_ready)
    => /\ \A k \in Peers : p2p[k].phase = "playing"
       /\ p2p["A"].current_turn = p2p["B"].current_turn

\* both peers are ready, everything was delivered, both play, and each
\* holds the first turn the other one drew
C38_Witness ==
    /\ Quiet
    /\ \A k \in Peers : /\ p2p[k].ships_ready
                        /\ p2p[k].opponent_ships_ready
                        /\ p2p[k].phase = "playing"
    /\ last = Called("deliver", "B", TRUE, "start_game")
    /\ p2p["A"].current_turn = PlayerId(Pub("B"))
    /\ p2p["B"].current_turn = PlayerId(Pub("A"))

-----------------------------------------------------------------------------
(* BattleshipP2P: the transport connection and the ExProtocol handshake *)

MaxConnections == 2    \* the transport connects at most this many times
MaxHandled == 3        \* handshake messages a peer handles on one connection

\* the handshake message each role expects at each step, and what it sends
Expected(role, step) ==
    IF role = "listener"
    THEN (IF step = 0 THEN "pow_request" ELSE "handshake_request")
    ELSE (IF step = 0 THEN "pow_challenge" ELSE "handshake_response")
Reply(role, step) ==
    IF role = "listener"
    THEN (IF step = 0 THEN "pow_challenge" ELSE "handshake_response")
    ELSE "handshake_request"

\* transport.send_data: raw data queued for the other peer
send_data(n, k, kind) == [n EXCEPT ![Other(k)] = Append(@, [kind |-> kind])]

\* A has called listen_for_peer, B connect_to_peer; wire is the transport:
\* whether it is connected, how often it has connected, and how many
\* handshake messages each peer has handled on the current connection
InitLink ==
    /\ proto = [p \in Peers |-> NewProtocol(p, 0)]
    /\ game = [p \in Peers |-> NewGame]
    /\ enf = [p \in Peers |-> [current_turn |-> PlayerId(Pub("A")),
                               pending |-> <<>>]]
    /\ last = Called("init", "A", TRUE, "")
    /\ now = 1
    /\ wire = [up |-> FALSE, connections |-> 0, handled |-> [p \in Peers |-> 0]]
    /\ tamper = NoTamper
    /\ thr = [t \in Threads |-> IdleThread]
    /\ p2p = [p \in Peers |->
                 [NewP2P(PlayerId(Pub(p))) EXCEPT
                     !.connection_role = IF p = "A" THEN "listener" ELSE "connector",
                     !.phase = "connecting"]]
    /\ net = [p \in Peers |-> <<>>]
    /\ InitMerkleOff

\* the transport connects: _handle_transport_state_change(CONNECTED) on both
\* peers sets phase CONNECTED, and _initiate_protocol_handshake makes the
\* connector send its PoW request
TransportConnected ==
    /\ ~wire.up
    /\ wire.connections < MaxConnections
    /\ wire' = [up |-> TRUE, connections |-> wire.connections + 1,
                handled |-> [p \in Peers |-> 0]]
    /\ p2p' = [p \in Peers |-> [p2p[p] EXCEPT !.phase = "connected"]]
    /\ net' = send_data([p \in Peers |-> <<>>], "B", "pow_request")
    /\ last' = Called("transport_connected", "A", TRUE, "")
    /\ UNCHANGED <<proto, game, enf, now, tamper, thr, merkleVars>>

\* the connection is lost: _handle_transport_state_change(DISCONNECTED) on
\* both peers; what was in flight is gone
TransportDisconnected ==
    /\ wire.up
    /\ wire' = [wire EXCEPT !.up = FALSE]
    /\ p2p' = [p \in Peers |-> [p2p[p] EXCEPT !.phase = "disconnected",
                                              !.connection_established = FALSE]]
    /\ net' = [p \in Peers |-> <<>>]
    /\ last' = Called("transport_disconnected", "A", TRUE, "")
    /\ UNCHANGED <<proto, game, enf, now, tamper, thr, merkleVars>>

\* _handle_transport_data while connection_established is false:
\* _handle_protocol_handshake. _handshake_step is created on the first call
\* only. A message the wrapper does not expect at this step makes the
\* ExProtocol call either raise (the error is reported, nothing is sent) or
\* go through: accepted is that outcome
HandshakeDeliver(k, accepted) ==
    /\ wire.up
    /\ net[k] # <<>>
    /\ ~p2p[k].connection_established
    /\ wire.handled[k] < MaxHandled
    /\ LET m    == Head(net[k])
           rest == [net EXCEPT ![k] = Tail(@)]
           pp   == [p2p[k] EXCEPT !.has_handshake_step = TRUE,
                                  !.handshake_step = IF p2p[k].has_handshake_step
                                                     THEN @ ELSE 0]
           role == pp.connection_role
           step == pp.handshake_step
           ok   == m.kind = Expected(role, step) \/ accepted
       IN  /\ wire' = [wire EXCEPT !.handled[k] = @ + 1]
           /\ IF ~ok
              THEN /\ p2p' = [p2p EXCEPT ![k] = pp]
                   /\ net' = rest
              ELSE IF step = 0
              THEN /\ p2p' = [p2p EXCEPT ![k] = [pp EXCEPT !.handshake_step = 1]]
                   /\ net' = send_data(rest, k, Reply(role, 0))
              ELSE /\ p2p' = [p2p EXCEPT ![k] =
                                 [pp EXCEPT !.connection_established = TRUE,
                                            !.phase = "setup"]]
                   /\ net' = IF role = "listener"
                             THEN send_data(rest, k, Reply(role, 1)) ELSE rest
           /\ last' = Called("handshake", k, ok, m.kind)
    /\ UNCHANGED <<proto, game, enf, now, tamper, thr, merkleVars>>

\* a game message (PING) sent with _send_message, which refuses while the
\* connection is not established
SendPing(k) ==
    /\ wire.up
    /\ NetRoom(k)
    /\ net' = IF p2p[k].connection_established
              THEN send_data(net, k, "ping") ELSE net
    /\ last' = Called("send_message", k, p2p[k].connection_established, "ping")
    /\ UNCHANGED <<proto, game, enf, now, wire, tamper, thr, p2p, merkleVars>>

\* _handle_transport_data while connection_established is true:
\* _handle_protocol_message; a PING is answered with a PONG, data that is no
\* game message fails to decrypt and is reported
GameDeliver(k) ==
    /\ wire.up
    /\ net[k] # <<>>
    /\ p2p[k].connection_established
    /\ LET m    == Head(net[k])
           rest == [net EXCEPT ![k] = Tail(@)]
       IN  /\ m.kind = "ping" => NetRoom(k)
           /\ net' = IF m.kind = "ping" THEN send_data(rest, k, "pong") ELSE rest
           /\ last' = Called("game_message", k, m.kind \in {"ping", "pong"}, m.kind)
    /\ UNCHANGED <<proto, game, enf, now, wire, tamper, thr, p2p, merkleVars>>

NextLink ==
    \/ TransportConnected
    \/ TransportDisconnected
    \/ \E k \in Peers : \E accepted \in BOOLEAN : HandshakeDeliver(k, accepted)
    \/ \E k \in Peers : SendPing(k)
    \/ \E k \in Peers : GameDeliver(k)

SpecLink == InitLink /\ [][NextLink]_vars

\* C39: on every new connection the handshake starts from its first step,
\* and a peer has connection_established only after handling both handshake
\* messages of the current connection
C39_HandshakeRestarts ==
    [][/\ last'.op = "transport_connected"
          => \A k \in Peers : \/ ~p2p'[k].has_handshake_step
                              \/ p2p'[k].handshake_step = 0
       /\ \A k \in Peers :
             p2p'[k].connection_established => wire'.handled[k] = 2
      ]_vars

\* the second connection is up and the connector's PoW request is in
\* flight, while both peers still hold _handshake_step = 1 from the first
\* handshake
C39_Witness ==
    /\ last.op = "transport_connected"
    /\ wire.connections = 2
    /\ net["A"] = <<[kind |-> "pow_request"]>>
    /\ \A k \in Peers : /\ p2p[k].has_handshake_step
                        /\ p2p[k].handshake_step = 1
                        /\ p2p[k].phase = "connected"
                        /\ ~p2p[k].connection_established

====
